---- MODULE Spec2Model ----
(***************************************************************************)
(* A model of PSCESecurityManager (src/lib/security-manager.js): the       *)
(* master-password setup, the per-wallet encryption, the in-memory         *)
(* session, the audit log and the keytar / file-fallback secret store.     *)
(* With it, the wallet library (src/lib/wallet): address generation,       *)
(* derivation and validation, and the mnemonic of a private key.           *)
(*                                                                         *)
(* One action models one public method of the class, run to completion     *)
(* (the CLI runs one command at a time).  What the user types and what     *)
(* crypto.randomBytes and the native secret service answer are inputs,     *)
(* drawn with \E from the small sets below.                                *)
(***************************************************************************)
EXTENDS Integers, Sequences, FiniteSets, TLC

VARIABLES
    session,              \* this.session: lastActivity, timeout, masterKey, isActive
    isLinuxWithoutDisplay,\* this.isLinuxWithoutDisplay, fixed by the constructor
    keytarStore,          \* the native secret service: account -> password
    networksFile,         \* ~/.psce/networks.json, the file fallback
    securityFile,         \* ~/.psce/security.json, the master credential
    auditFile,            \* ~/.psce/audit.enc, the audit log
    configDir,            \* whether ~/.psce exists
    now,                  \* Date.now(), in ms
    res,                  \* the last call: its inputs and what it returned or threw
    writers,              \* the processes inside fileBasedSet / fileBasedDelete
    lastWriter,           \* the process whose writeFileSync reached networks.json last
    tty                   \* the terminal and the prompt of askSecureInput

vars == <<session, isLinuxWithoutDisplay, keytarStore, networksFile,
          securityFile, auditFile, configDir, now, res, writers, lastWriter,
          tty>>

-----------------------------------------------------------------------------
(* Bounds of the model *)

\* The clock stops advancing here.
MaxNow == 122000
\* The audit log holds at most this many entries; a method that logs is not
\* started once the log is full.
MaxAudit == 2
\* The same, where the session is followed over time.
MaxSessionAudit == 3
\* The same, where the secret store is followed.
MaxStoreAudit == 1

-----------------------------------------------------------------------------
(* Inputs *)

\* What the user may type at a password prompt.  "abc" is shorter than the
\* six characters setup asks for.
Passwords == {"secret1", "hunter22", "abc"}
\* the passwords typed where the session is followed over time
SessionPasswords == {"secret1", "hunter22"}
\* crypto.randomBytes(32).toString("hex") of ensureSession
RandomHex == {"9f3c"}
\* crypto.randomBytes for a salt and for an iv
Salts == {0, 1}
Ivs == {0, 2}
\* wallet addresses and private keys (hex text, read as the number it writes)
Addresses == {"PRa1"}
PrivateKeys == {1, 2}
\* network names
NetworkNames == {"testnet"}
\* answers to "Session timeout in minutes"
TimeoutAnswers == {"", "0", "1"}
\* what one call of the native secret service does: it answers, or it throws
\* the error a missing message bus gives, or another error
KeytarModes == {"ok", "dbus", "denied"}
\* clock advances between two calls, in ms
Ticks == {60000, 61000}

-----------------------------------------------------------------------------
(* Values *)

\* null of lastActivity (tested by truthiness only)
NoTime == 0
\* null of masterKey (tested by truthiness only)
NoKey == ""

\* the empty object {}
EmptyMap == [k \in {} |-> k]
Has(m, k) == k \in DOMAIN m
Put(m, k, v) == [x \in (DOMAIN m) \cup {k} |-> IF x = k THEN v ELSE m[x]]
Del(m, k) == [x \in (DOMAIN m) \ {k} |-> m[x]]

\* A stored string is either JSON.stringify of an object or a plain string.
Json(o) == [json |-> o]
Str(s) == [str |-> s]
\* null, as a return value
Null == [null |-> TRUE]

StartsWith(s, p) == Len(s) >= Len(p) /\ SubSeq(s, 1, Len(p)) = p
\* s.replace(p, "") for an s that starts with p
StripPrefix(s, p) == SubSeq(s, Len(p) + 1, Len(s))

-----------------------------------------------------------------------------
(* crypto: scrypt and aes-256-cbc, on small numbers.                       *)
(* A block is a number mod 16.  PKCS#7 padding makes a block of a          *)
(* plaintext p as 4 * p + 1; a block is well padded when it is 1 mod 4.    *)
(* The cipher adds the key, CBC chaining adds the iv.  As with the real    *)
(* cipher, decrypting under another key gives a block that is usually      *)
(* badly padded ("bad decrypt") and sometimes well padded (garbage).       *)

\* the bytes of a typed or cached password, as a number
PwCode(pw) ==
    CASE pw = "secret1" -> 1
      [] pw = "hunter22" -> 2
      [] pw = "abc" -> 5
      [] pw = "9f3c" -> 3
      [] OTHER -> 0

\* crypto.scryptSync(password, salt, 32): one key per (password, salt)
Scrypt(pw, salt) == (7 * PwCode(pw) + 3 * salt) % 16

Pkcs7Pad(p) == (4 * p + 1) % 16
Pkcs7Ok(b) == b % 4 = 1
Pkcs7Unpad(b) == b \div 4

\* createCipheriv("aes-256-cbc", key, iv): update + final
AesCbcEncrypt(plain, key, iv) == (Pkcs7Pad(plain) + key + iv) % 16

\* createDecipheriv("aes-256-cbc", key, iv): update + final, which throws
\* "bad decrypt" when the last block is badly padded
AesCbcDecrypt(cipher, key, iv) ==
    LET b == (cipher + 32 - key - iv) % 16
    IN  IF Pkcs7Ok(b) THEN [threw |-> FALSE, plain |-> Pkcs7Unpad(b)]
        ELSE [threw |-> TRUE, plain |-> 0]

-----------------------------------------------------------------------------
(* error messages *)

NotFoundMsg(address) == "Wallet not found: " \o address
IncorrectMsg == "Incorrect master password or corrupted wallet data"
NoSessionMsg == "No active session"
MismatchMsg == "Passwords do not match!"
TooShortMsg == "Master password must be at least 6 characters!"
\* what fs.writeFileSync throws when ~/.psce does not exist
EnoentMsg == "ENOENT: no such file or directory, open audit.enc"
\* what keytar throws without a message bus (it contains "D-Bus")
DBusMsg == "Cannot autolaunch D-Bus without X11 $DISPLAY"
\* another keytar error (it contains neither "D-Bus" nor "DISPLAY")
DeniedMsg == "User canceled the operation."
KeytarMsg(kt) == IF kt = "dbus" THEN DBusMsg ELSE DeniedMsg
\* what keytar.setPassword throws for an empty password
RequiredMsg == "Password is required."
\* error.message.includes("D-Bus") || error.message.includes("DISPLAY")
IsCapabilityError(kt) == kt = "dbus"

-----------------------------------------------------------------------------
(* the session *)

NewSession ==
    [lastActivity |-> NoTime, timeout |-> 10 * 60 * 1000,
     masterKey |-> NoKey, isActive |-> FALSE]

\* parseInt of the answers of TimeoutAnswers
ParseInt(input) ==
    CASE input = "0" -> [nan |-> FALSE, n |-> 0]
      [] input = "1" -> [nan |-> FALSE, n |-> 1]
      [] OTHER -> [nan |-> TRUE, n |-> 0]

parseTimeout(input) ==
    LET t == ParseInt(input)
    IN  IF t.nan THEN 10
        ELSE IF t.n < 0 THEN 0
        ELSE IF t.n > 60 THEN 60
        ELSE t.n

\* isSessionValid, were a session still valid when the whole timeout has
\* passed
isSessionValidInclusive ==
    IF ~session.isActive \/ session.lastActivity = NoTime THEN FALSE
    ELSE (now - session.lastActivity) <= session.timeout

isSessionValid ==
    IF ~session.isActive \/ session.lastActivity = NoTime THEN FALSE
    ELSE (now - session.lastActivity) < session.timeout

\* the session after updateActivity()
updateActivity(s) ==
    IF s.timeout > 0 THEN [s EXCEPT !.lastActivity = now] ELSE s

\* the session after ensureSession(), hex being what randomBytes gives
ensureSession(s, hex) ==
    LET s1 == IF ~s.isActive
              THEN [s EXCEPT !.isActive = TRUE, !.lastActivity = now,
                             !.masterKey = hex]
              ELSE s
    IN  [s1 EXCEPT !.lastActivity = now]

-----------------------------------------------------------------------------
(* the audit log *)

NoAuditFile == [state |-> "absent", entries |-> <<>>]

readAuditLog == IF auditFile.state = "json" THEN auditFile.entries ELSE <<>>

AuditEntry(action, target, success, metadata) ==
    [timestamp |-> now, action |-> action, target |-> target,
     success |-> success, machine |-> "host", user |-> "user",
     metadata |-> metadata]

\* the audit file after logAudit(...), when ~/.psce exists
logAudit(action, target, success, metadata) ==
    [state |-> "json",
     entries |-> Append(readAuditLog, AuditEntry(action, target, success, metadata))]

\* logAudit in a process that is killed inside fs.writeFileSync: the file
\* was opened for writing and holds the text of the first kept entries of
\* what was being written, which JSON.parse does not accept
logAuditKilled(kept) ==
    /\ configDir
    /\ kept <= Len(readAuditLog)
    /\ auditFile' = [state |-> "cut", entries |-> SubSeq(readAuditLog, 1, kept)]
    /\ res' = [res EXCEPT !.op = "logAudit", !.outcome = "killed"]
    /\ UNCHANGED <<session, isLinuxWithoutDisplay, keytarStore, networksFile,
                   securityFile, configDir, now, writers, lastWriter, tty>>

\* the log has room for the entries of one more call
AuditRoom(max) == Len(readAuditLog) < max

-----------------------------------------------------------------------------
(* the secret store: keytar, and the file fallback.  Each operator gives   *)
(* what the call leaves behind and what it returns: ks, nf, dir are the    *)
(* keytar store, the fallback file and the existence of ~/.psce after      *)
(* the call.                                                               *)

NoNetworksFile == [exists |-> FALSE, data |-> EmptyMap, mode |-> "none"]

Outcome(ks, nf, dir, value, threw, err, native, backend) ==
    [ks |-> ks, nf |-> nf, dir |-> dir, value |-> value, threw |-> threw,
     err |-> err, native |-> native, backend |-> backend]

fileBasedSet(key, value, native) ==
    LET data == IF networksFile.exists THEN networksFile.data ELSE EmptyMap
    IN  Outcome(keytarStore,
                [exists |-> TRUE, data |-> Put(data, key, value), mode |-> "0600"],
                TRUE, [bool |-> TRUE], FALSE, "", native, "file")

fileBasedGet(key, native) ==
    LET v == IF networksFile.exists /\ Has(networksFile.data, key)
                  /\ networksFile.data[key] # Str("")
             THEN networksFile.data[key]
             ELSE Null
    IN  Outcome(keytarStore, networksFile, configDir, v, FALSE, "", native, "file")

fileBasedDelete(key, native) ==
    LET nf == IF networksFile.exists
              THEN [networksFile EXCEPT !.data = Del(networksFile.data, key)]
              ELSE networksFile
    IN  Outcome(keytarStore, nf, configDir, [bool |-> TRUE], FALSE, "", native, "file")

\* keytar.setPassword / getPassword / deletePassword, kt being what the
\* native service does in this call
keytarSetPassword(key, value, kt) ==
    IF value = Str("")
    THEN \* checkRequired(password, "Password") of keytar's setPassword
         Outcome(keytarStore, networksFile, configDir,
                 Null, TRUE, RequiredMsg, kt, "keytar")
    ELSE IF kt = "ok"
    THEN Outcome(Put(keytarStore, key, value), networksFile, configDir,
                 Null, FALSE, "", kt, "keytar")
    ELSE Outcome(keytarStore, networksFile, configDir,
                 Null, TRUE, KeytarMsg(kt), kt, "keytar")

keytarGetPassword(key, kt) ==
    IF kt = "ok"
    THEN Outcome(keytarStore, networksFile, configDir,
                 IF Has(keytarStore, key) THEN keytarStore[key] ELSE Null,
                 FALSE, "", kt, "keytar")
    ELSE Outcome(keytarStore, networksFile, configDir,
                 Null, TRUE, KeytarMsg(kt), kt, "keytar")

keytarDeletePassword(key, kt) ==
    IF kt = "ok"
    THEN Outcome(Del(keytarStore, key), networksFile, configDir,
                 [bool |-> Has(keytarStore, key)], FALSE, "", kt, "keytar")
    ELSE Outcome(keytarStore, networksFile, configDir,
                 Null, TRUE, KeytarMsg(kt), kt, "keytar")

safeKeytarSet(key, value, kt) ==
    IF isLinuxWithoutDisplay THEN fileBasedSet(key, value, "none")
    ELSE IF kt = "ok" THEN keytarSetPassword(key, value, kt)
    ELSE IF IsCapabilityError(kt) THEN fileBasedSet(key, value, kt)
    ELSE keytarSetPassword(key, value, kt)

safeKeytarGet(key, kt) ==
    IF isLinuxWithoutDisplay THEN fileBasedGet(key, "none")
    ELSE IF kt = "ok" THEN keytarGetPassword(key, kt)
    ELSE IF IsCapabilityError(kt) THEN fileBasedGet(key, kt)
    ELSE keytarGetPassword(key, kt)

safeKeytarDelete(key, kt) ==
    IF isLinuxWithoutDisplay THEN fileBasedDelete(key, "none")
    ELSE IF kt = "ok" THEN keytarDeletePassword(key, kt)
    ELSE IF IsCapabilityError(kt) THEN fileBasedDelete(key, kt)
    ELSE keytarDeletePassword(key, kt)

-----------------------------------------------------------------------------
(* processes and the terminal *)

\* the processes that may run the CLI at the same time
Procs == {1, 2}
\* a process that is not inside fileBasedSet or fileBasedDelete
IdleWriter ==
    [pc |-> "idle", op |-> "none", key |-> "", value |-> Null,
     data |-> EmptyMap, wrote |-> FALSE]
\* the terminal before any prompt: cooked mode, the process running
NoPrompt ==
    [rawMode |-> FALSE, prompt |-> "none", input |-> <<>>, listening |-> FALSE,
     process |-> "running"]

-----------------------------------------------------------------------------
(* the last call *)

\* op: the method; target: its address or name; pw: what was typed at the
\* master-password prompt; arg: its other input; outcome: "ok" or "throw";
\* value: what it returned; err: the message it threw; prompted: whether it
\* asked for the master password; native: what the native service did in
\* the call ("none": not asked); backend: the store the call went to.
Call(op, target, pw, arg, outcome, value, err, prompted, native, backend) ==
    [op |-> op, target |-> target, pw |-> pw, arg |-> arg, outcome |-> outcome,
     value |-> value, err |-> err, prompted |-> prompted, native |-> native,
     backend |-> backend]

Init ==
    /\ session = NewSession
    /\ isLinuxWithoutDisplay \in BOOLEAN
    /\ keytarStore = EmptyMap
    /\ networksFile = NoNetworksFile
    /\ securityFile = [exists |-> FALSE]
    /\ auditFile = NoAuditFile
    /\ configDir \in BOOLEAN
    /\ now = 1000
    /\ res = Call("new", "", "", "", "ok", Null, "", FALSE, "none", "none")
    /\ writers = [p \in Procs |-> IdleWriter]
    /\ lastWriter = 0
    /\ tty = NoPrompt

-----------------------------------------------------------------------------
(* setup and the wallet methods *)

walletKey(address) == "wallet:" \o address

\* configData, were the password written beside its hash
configDataWithPassword(timeoutMs, masterPassword, salt) ==
    [exists |-> TRUE, sessionTimeout |-> timeoutMs, setupDate |-> now,
     version |-> "1.0.0", masterSalt |-> salt,
     masterHash |-> Scrypt(masterPassword, salt),
     masterPassword |-> masterPassword]

\* what setup writes to security.json
configData(timeoutMs, masterPassword, salt) ==
    [exists |-> TRUE, sessionTimeout |-> timeoutMs, setupDate |-> now,
     version |-> "1.0.0", masterSalt |-> salt,
     masterHash |-> Scrypt(masterPassword, salt)]

\* the session once setup has read the timeout answer
setupSession(timeoutMinutes) ==
    [session EXCEPT !.timeout = timeoutMinutes * 60 * 1000]

setup(timeoutAnswer, masterPassword, confirmPassword, salt) ==
    LET timeoutMinutes == parseTimeout(timeoutAnswer)
    IN
    /\ configDir' = TRUE
    /\ session' = setupSession(timeoutMinutes)
    /\ IF masterPassword # confirmPassword
       THEN /\ res' = Call("setup", "system", masterPassword, confirmPassword,
                           "throw", Null, MismatchMsg, TRUE, "none", "none")
            /\ UNCHANGED <<securityFile, auditFile>>
       ELSE IF Len(masterPassword) < 6
       THEN /\ res' = Call("setup", "system", masterPassword, confirmPassword,
                           "throw", Null, TooShortMsg, TRUE, "none", "none")
            /\ UNCHANGED <<securityFile, auditFile>>
       ELSE /\ securityFile' =
                   configData(timeoutMinutes * 60 * 1000, masterPassword, salt)
            /\ auditFile' = logAudit("SECURITY_SETUP", "system", TRUE,
                                [sessionTimeout |-> timeoutMinutes,
                                 setupTime |-> now])
            /\ res' = Call("setup", "system", masterPassword, confirmPassword,
                           "ok", [timeoutMinutes |-> timeoutMinutes], "",
                           TRUE, "none", "none")
    /\ UNCHANGED <<writers, lastWriter, tty, isLinuxWithoutDisplay, keytarStore, networksFile, now>>

\* the object storeWallet stores under wallet:<address>
encryptedData(privateKey, masterPassword, salt, iv) ==
    [encrypted |-> AesCbcEncrypt(privateKey, Scrypt(masterPassword, salt), iv),
     salt |-> salt, iv |-> iv, timestamp |-> now]

storeWallet(address, privateKey, masterPassword, salt, iv, kt) ==
    LET put == keytarSetPassword(walletKey(address),
                   Json(encryptedData(privateKey, masterPassword, salt, iv)), kt)
    IN
    /\ keytarStore' = put.ks
    /\ IF ~configDir
       THEN \* logAudit throws, in the try block and again in the catch block
            /\ UNCHANGED auditFile
            /\ res' = Call("storeWallet", address, masterPassword, privateKey,
                           "throw", Null, EnoentMsg, TRUE, kt, "keytar")
       ELSE IF put.threw
       THEN /\ auditFile' = logAudit("WALLET_STORE", address, FALSE,
                                     [error |-> put.err])
            /\ res' = Call("storeWallet", address, masterPassword, privateKey,
                           "throw", Null, put.err, TRUE, kt, "keytar")
       ELSE /\ auditFile' = logAudit("WALLET_STORE", address, TRUE, EmptyMap)
            /\ res' = Call("storeWallet", address, masterPassword, privateKey,
                           "ok", [bool |-> TRUE], "", TRUE, kt, "keytar")
    /\ UNCHANGED <<writers, lastWriter, tty, session, isLinuxWithoutDisplay, networksFile, securityFile,
                   configDir, now>>

\* decryptWallet, were the key derived with a fixed salt (as encrypt() and
\* decrypt() of the class do) instead of the stored one
decryptWalletFixedSalt(address, masterPassword, kt) ==
    LET got == keytarGetPassword(walletKey(address), kt)
    IN  IF got.threw THEN [threw |-> TRUE, err |-> got.err, plain |-> 0]
        ELSE IF got.value = Null
        THEN [threw |-> TRUE, err |-> NotFoundMsg(address), plain |-> 0]
        ELSE LET data == got.value.json
                 d == AesCbcDecrypt(data.encrypted,
                                    Scrypt(masterPassword, 0), data.iv)
             IN  IF d.threw
                 THEN [threw |-> TRUE, err |-> IncorrectMsg, plain |-> 0]
                 ELSE [threw |-> FALSE, err |-> "", plain |-> d.plain]

\* decryptWallet(address, masterPassword): what it returns or throws
decryptWallet(address, masterPassword, kt) ==
    LET got == keytarGetPassword(walletKey(address), kt)
    IN  IF got.threw THEN [threw |-> TRUE, err |-> got.err, plain |-> 0]
        ELSE IF got.value = Null
        THEN [threw |-> TRUE, err |-> NotFoundMsg(address), plain |-> 0]
        ELSE LET data == got.value.json
                 d == AesCbcDecrypt(data.encrypted,
                                    Scrypt(masterPassword, data.salt), data.iv)
             IN  IF d.threw
                 THEN [threw |-> TRUE, err |-> IncorrectMsg, plain |-> 0]
                 ELSE [threw |-> FALSE, err |-> "", plain |-> d.plain]

getWallet(address, masterPassword, kt) ==
    LET d == decryptWallet(address, masterPassword, kt)
    IN
    /\ IF ~configDir
       THEN /\ UNCHANGED auditFile
            /\ res' = Call("getWallet", address, masterPassword, "",
                           "throw", Null, EnoentMsg, TRUE, kt, "keytar")
       ELSE IF d.threw
       THEN /\ auditFile' = logAudit("WALLET_ACCESS", address, FALSE,
                                     [error |-> d.err])
            /\ res' = Call("getWallet", address, masterPassword, "",
                           "throw", Null, d.err, TRUE, kt, "keytar")
       ELSE /\ auditFile' = logAudit("WALLET_ACCESS", address, TRUE,
                                     [mode |-> "fresh"])
            /\ res' = Call("getWallet", address, masterPassword, "",
                           "ok", [plain |-> d.plain], "", TRUE, kt, "keytar")
    /\ UNCHANGED <<writers, lastWriter, tty, session, isLinuxWithoutDisplay, keytarStore, networksFile,
                   securityFile, configDir, now>>

\* the session after a successful getWalletFresh
freshSession(masterPassword) ==
    IF session.timeout > 0
    THEN [session EXCEPT !.masterKey = masterPassword, !.lastActivity = now,
                         !.isActive = TRUE]
    ELSE session

getWalletFresh(address, masterPassword, kt) ==
    LET d == decryptWallet(address, masterPassword, kt)
    IN
    /\ IF d.threw
       THEN /\ UNCHANGED <<session, auditFile>>
            /\ res' = Call("getWalletFresh", address, masterPassword, "",
                           "throw", Null, d.err, TRUE, kt, "keytar")
       ELSE /\ session' = freshSession(masterPassword)
            /\ IF ~configDir
               THEN /\ UNCHANGED auditFile
                    /\ res' = Call("getWalletFresh", address, masterPassword, "",
                                   "throw", Null, EnoentMsg, TRUE, kt, "keytar")
               ELSE /\ auditFile' = logAudit("WALLET_ACCESS", address, TRUE,
                                             [mode |-> "fresh"])
                    /\ res' = Call("getWalletFresh", address, masterPassword, "",
                                   "ok", [plain |-> d.plain], "", TRUE, kt,
                                   "keytar")
    /\ UNCHANGED <<writers, lastWriter, tty, isLinuxWithoutDisplay, keytarStore, networksFile,
                   securityFile, configDir, now>>

getWalletFromSession(address, kt) ==
    LET d == decryptWallet(address, session.masterKey, kt)
    IN
    /\ IF session.masterKey = NoKey
       THEN /\ UNCHANGED <<session, auditFile>>
            /\ res' = Call("getWalletFromSession", address, "", "",
                           "throw", Null, NoSessionMsg, FALSE, "none", "none")
       ELSE IF d.threw
       THEN /\ UNCHANGED <<session, auditFile>>
            /\ res' = Call("getWalletFromSession", address, "", "",
                           "throw", Null, d.err, FALSE, kt, "keytar")
       ELSE /\ session' = updateActivity(session)
            /\ IF ~configDir
               THEN /\ UNCHANGED auditFile
                    /\ res' = Call("getWalletFromSession", address, "", "",
                                   "throw", Null, EnoentMsg, FALSE, kt, "keytar")
               ELSE /\ auditFile' = logAudit("WALLET_ACCESS", address, TRUE,
                                             [mode |-> "session"])
                    /\ res' = Call("getWalletFromSession", address, "", "",
                                   "ok", [plain |-> d.plain], "", FALSE, kt,
                                   "keytar")
    /\ UNCHANGED <<writers, lastWriter, tty, isLinuxWithoutDisplay, keytarStore, networksFile,
                   securityFile, configDir, now>>

clearSession ==
    /\ session' = [session EXCEPT !.masterKey = NoKey, !.lastActivity = NoTime,
                                  !.isActive = FALSE]
    /\ res' = Call("clearSession", "", "", "", "ok", Null, "", FALSE,
                   "none", "none")
    /\ UNCHANGED <<writers, lastWriter, tty, isLinuxWithoutDisplay, keytarStore, networksFile,
                   securityFile, auditFile, configDir, now>>

\* time passes between two calls
Tick(d) ==
    /\ now + d <= MaxNow
    /\ now' = now + d
    /\ UNCHANGED <<writers, lastWriter, tty, session, isLinuxWithoutDisplay, keytarStore, networksFile,
                   securityFile, auditFile, configDir, res>>

\* security.isSessionValid(), called by the owner of the manager; arg is
\* what the call read: Date.now() and this.session
callIsSessionValid ==
    /\ res' = Call("isSessionValid", "", "", [now |-> now, session |-> session],
                   "ok", [bool |-> isSessionValid], "", FALSE, "none", "none")
    /\ UNCHANGED <<writers, lastWriter, tty, session, isLinuxWithoutDisplay,
                   keytarStore, networksFile, securityFile, auditFile,
                   configDir, now>>

\* the next process: new PSCESecurityManager() on the same machine
newManager ==
    /\ session' = NewSession
    /\ res' = Call("new", "", "", "", "ok", Null, "", FALSE, "none", "none")
    /\ UNCHANGED <<writers, lastWriter, tty, isLinuxWithoutDisplay, keytarStore,
                   networksFile, securityFile, auditFile, configDir, now>>

-----------------------------------------------------------------------------
(* the network, address-metadata and config methods *)

networkKey(name) == "network:" \o name
activeNetworkKey == "config:activeNetwork"
activeAddressKey == "config:activeAddress"

\* the objects the commands hand to storeNetwork: a network record under
\* its name, an address's metadata under address:<address>
NetworkData(name) ==
    IF StartsWith(name, "address:")
    THEN [name |-> "main", address |-> StripPrefix(name, "address:"),
          network |-> "testnet", prefix |-> "PR"]
    ELSE [name |-> name, url |-> "https://node.example", prefix |-> "PR"]

\* the names storeNetwork, getNetwork and removeNetwork are called with
StoreNames == NetworkNames \cup {"address:" \o a : a \in Addresses}

\* a call that went through one of the safeKeytar wrappers: o is the
\* wrapper's outcome, value what the method returns when o did not throw
StoreCall(op, target, arg, o, value, hex) ==
    /\ session' = ensureSession(session, hex)
    /\ keytarStore' = o.ks
    /\ networksFile' = o.nf
    /\ configDir' = o.dir
    /\ res' = IF o.threw
              THEN Call(op, target, "", arg, "throw", Null, o.err, FALSE,
                        o.native, o.backend)
              ELSE Call(op, target, "", arg, "ok", value, "", FALSE,
                        o.native, o.backend)
    /\ UNCHANGED <<writers, lastWriter, tty, isLinuxWithoutDisplay, securityFile, auditFile, now>>

storeNetwork(name, kt, hex) ==
    LET o == safeKeytarSet(networkKey(name), Json(NetworkData(name)), kt)
    IN  StoreCall("storeNetwork", name, "",
                  IF o.threw
                  THEN [o EXCEPT !.err = "Failed to store network: " \o o.err]
                  ELSE o,
                  Null, hex)

getNetwork(name, kt, hex) ==
    LET o == safeKeytarGet(networkKey(name), kt)
    IN  StoreCall("getNetwork", name, "", o, o.value, hex)

removeNetwork(name, kt, hex) ==
    LET o == safeKeytarDelete(networkKey(name), kt)
    IN  StoreCall("removeNetwork", name, "", o, Null, hex)

removeWallet(address, kt, hex) ==
    LET o == keytarDeletePassword(walletKey(address), kt)
    IN  StoreCall("removeWallet", address, "", o, Null, hex)

setActiveNetwork(name, kt, hex) ==
    LET o == safeKeytarSet(activeNetworkKey, Str(name), kt)
    IN  StoreCall("setActiveNetwork", name, "", o, Null, hex)

\* getActiveNetwork and getActiveAddress return null when the wrapper throws
Swallow(o) == IF o.threw THEN [o EXCEPT !.threw = FALSE, !.value = Null] ELSE o

getActiveNetwork(kt, hex) ==
    LET o == Swallow(safeKeytarGet(activeNetworkKey, kt))
    IN  StoreCall("getActiveNetwork", "", "", o, o.value, hex)

setActiveAddress(address, kt, hex) ==
    LET o == safeKeytarSet(activeAddressKey, Str(address), kt)
    IN  StoreCall("setActiveAddress", address, "", o, Null, hex)

getActiveAddress(kt, hex) ==
    LET o == Swallow(safeKeytarGet(activeAddressKey, kt))
    IN  StoreCall("getActiveAddress", "", "", o, o.value, hex)

\* the entries of a key -> value map whose key starts with network:, by name
NetworksOf(data) ==
    LET keys == {k \in DOMAIN data : StartsWith(k, "network:")}
        names == {StripPrefix(k, "network:") : k \in keys}
    IN  [n \in names |-> data[networkKey(n)].json]

getAllNetworksFromFile ==
    IF networksFile.exists THEN NetworksOf(networksFile.data) ELSE EmptyMap

\* kt1 is what keytar.findCredentials does in detectKeytarFailure, kt2 what
\* it does in getAllNetworks itself
getAllNetworks(kt1, kt2, hex) ==
    LET fromFile == isLinuxWithoutDisplay
                    \/ (kt1 # "ok" /\ IsCapabilityError(kt1))
                    \/ kt2 # "ok"
        native == IF isLinuxWithoutDisplay THEN "none"
                  ELSE IF kt1 # "ok" /\ IsCapabilityError(kt1) THEN kt1
                  ELSE kt2
    IN  StoreCall("getAllNetworks", "all", "",
                  Outcome(keytarStore, networksFile, configDir, Null, FALSE, "",
                          native, IF fromFile THEN "file" ELSE "keytar"),
                  [nets |-> IF fromFile THEN getAllNetworksFromFile
                            ELSE NetworksOf(keytarStore)],
                  hex)

-----------------------------------------------------------------------------
(* bytes, text and hashes of the wallet library.  A buffer is the sequence *)
(* of its bytes.  Hex text is the sequence of its digits' values (0..15).  *)
(* SHA-256 and RIPEMD-160 are stood for by one small mixing function with  *)
(* their output lengths: equal input gives equal output, and the inputs of *)
(* the model give different outputs.                                       *)

\* buffer.toString("hex") / digest("hex")
ToHex(bytes) ==
    [i \in 1..(2 * Len(bytes)) |->
        IF i % 2 = 1 THEN bytes[(i + 1) \div 2] \div 16 ELSE bytes[i \div 2] % 16]

\* Buffer.from(text, "hex"): one byte per pair of digits, an odd last digit
\* is dropped
BufferFromHex(hex) ==
    [i \in 1..(Len(hex) \div 2) |-> 16 * hex[2 * i - 1] + hex[2 * i]]

\* the utf-8 bytes of hex text: "0".."9" are 48..57 and "a".."f" 97..102
Utf8(hex) ==
    [i \in 1..Len(hex) |-> IF hex[i] < 10 THEN 48 + hex[i] ELSE 87 + hex[i]]

RECURSIVE Absorb(_, _, _)
\* the bytes of places lo..hi mixed, each with a weight of its place
Absorb(bytes, lo, hi) ==
    IF lo > hi THEN 0
    ELSE IF lo = hi
    THEN ((bytes[lo] + 1) * (((lo * lo * 7 + lo * 13) % 251) + 1)) % 65521
    ELSE LET mid == (lo + hi) \div 2
         IN  (Absorb(bytes, lo, mid) + Absorb(bytes, mid + 1, hi)) % 65521

\* a digest of n bytes
Digest(seed, bytes, n) ==
    LET a == (Absorb(bytes, 1, Len(bytes)) + 257 * Len(bytes) + seed) % 65521
    IN  [i \in 1..n |-> ((a + 1) * (2 * i + 1) + (a \div 7) * i) % 256]

\* crypto.createHash("sha256").update(bytes).digest()
Sha256(bytes) == Digest(11, bytes, 32)
\* new RIPEMD160().update(bytes).digest()
Ripemd160(bytes) == Digest(7, bytes, 20)
\* sha256.x2(text) of the sha256 package: the hex text of the double hash of
\* the text's utf-8 bytes
sha256x2(text) == ToHex(Sha256(Sha256(Utf8(text))))

RECURSIVE LeadingZeros(_, _)
\* how many bytes of value 0 the buffer has from place i on, before another
LeadingZeros(bytes, i) ==
    IF i > Len(bytes) \/ bytes[i] # 0 THEN 0 ELSE 1 + LeadingZeros(bytes, i + 1)

StripLeadingZeros(bytes) ==
    SubSeq(bytes, LeadingZeros(bytes, 1) + 1, Len(bytes))

-----------------------------------------------------------------------------
(* base58, as bs58 and @scure/base compute it *)

Base58Alphabet == "123456789ABCDEFGHJKLMNPQRSTUVWXYZabcdefghijkmnopqrstuvwxyz"
Base58Char(d) == SubSeq(Base58Alphabet, d + 1, d + 1)
IsBase58Char(c) == \E i \in 1..58 : SubSeq(Base58Alphabet, i, i) = c
Base58Index(c) == (CHOOSE i \in 1..58 : SubSeq(Base58Alphabet, i, i) = c) - 1

RECURSIVE Rem58(_, _)
\* the remainder by 58 of the number of the first i big-endian bytes of ds
Rem58(ds, i) == IF i = 0 THEN 0 ELSE (Rem58(ds, i - 1) * 256 + ds[i]) % 58

\* the number of ds divided by 58: its bytes, by long division
Div58(ds) == [i \in 1..Len(ds) |-> (Rem58(ds, i - 1) * 256 + ds[i]) \div 58]

RECURSIVE Base58Digits(_)
\* the base58 digits of the number of ds, ds having no leading zero byte
Base58Digits(ds) ==
    IF ds = <<>> THEN ""
    ELSE Base58Digits(StripLeadingZeros(Div58(ds)))
         \o Base58Char(Rem58(ds, Len(ds)))

RECURSIVE Ones(_)
Ones(n) == IF n = 0 THEN "" ELSE "1" \o Ones(n - 1)

\* base58.encode(bytes): a "1" for each leading zero byte, then the digits
base58encode(bytes) ==
    Ones(LeadingZeros(bytes, 1)) \o Base58Digits(StripLeadingZeros(bytes))

RECURSIVE Carry58(_, _, _)
\* the carry out of place i when the number of ds is multiplied by 58 and c
\* is added
Carry58(ds, c, i) ==
    IF i > Len(ds) THEN c ELSE (ds[i] * 58 + Carry58(ds, c, i + 1)) \div 256

\* the big-endian bytes of (the number of ds) * 58 + c
MulAdd58(ds, c) ==
    IF ds = <<>> THEN (IF c = 0 THEN <<>> ELSE <<c>>)
    ELSE (IF Carry58(ds, c, 1) = 0 THEN <<>> ELSE <<Carry58(ds, c, 1)>>)
         \o [i \in 1..Len(ds) |-> (ds[i] * 58 + Carry58(ds, c, i + 1)) % 256]

RECURSIVE Base58Number(_, _)
\* the bytes of the number the first n characters write
Base58Number(text, n) ==
    IF n = 0 THEN <<>>
    ELSE MulAdd58(Base58Number(text, n - 1), Base58Index(SubSeq(text, n, n)))

RECURSIVE LeadingOnes(_, _)
LeadingOnes(text, i) ==
    IF i > Len(text) \/ SubSeq(text, i, i) # "1" THEN 0
    ELSE 1 + LeadingOnes(text, i + 1)

\* base58.decode(text): throws on a character outside the alphabet
base58decode(text) ==
    IF \E i \in 1..Len(text) : ~IsBase58Char(SubSeq(text, i, i))
    THEN [threw |-> TRUE, bytes |-> <<>>]
    ELSE [threw |-> FALSE,
          bytes |-> [i \in 1..LeadingOnes(text, 1) |-> 0]
                    \o Base58Number(text, Len(text))]

-----------------------------------------------------------------------------
(* keys: elliptic's secp256k1, stood for by a map from the scalar's number *)
(* to a 65-byte uncompressed point                                         *)

\* key.getPrivate("hex"): priv.toString(16, 2), the number's hex digits
\* padded to an even count (and not to 32 bytes)
getPrivate(key) == ToHex(StripLeadingZeros(key))

\* ec.keyFromPrivate(pri): new BN(pri, 16), the number the hex text writes
keyFromPrivate(pri) == StripLeadingZeros(BufferFromHex(pri))

\* key.getPublic("hex") and key.getPublic().encode("hex", false): 04, x, y
getPublic(key) ==
    LET n == StripLeadingZeros(key)
    IN  ToHex(<<4>> \o Digest(3, n, 32) \o Digest(5, n, 32))

\* undefined, as a return value or an argument left out
Undefined == [undefined |-> TRUE]

\* getPubKeyFromPrivate(pri): undefined when the point cannot be encoded
\* (the key 0 has no point)
getPubKeyFromPrivate(pri) ==
    IF keyFromPrivate(pri) = <<>> THEN Undefined
    ELSE [hex |-> getPublic(keyFromPrivate(pri))]

-----------------------------------------------------------------------------
(* addresses *)

\* base58extracted(publicKey, prefix): hex text of prefix, digest, checksum
base58extracted(publicKey, prefix) ==
    LET hashed == ToHex(Ripemd160(Utf8(sha256x2(publicKey))))
        secondHash == prefix \o hashed
        hashLast == sha256x2(sha256x2(secondHash))
        firstByte == SubSeq(hashLast, 1, 8)
    IN  secondHash \o firstByte

\* finalData of convertToBase58 and of createNewAddress: the bytes that are
\* base58-encoded
finalData(publicKey) ==
    LET prefix == <<8, 3>>
        data == BufferFromHex(base58extracted(publicKey, prefix))
        prefixBuffer == BufferFromHex(prefix)
        combined == prefixBuffer \o data
        checksum == SubSeq(Sha256(Sha256(combined)), 1, 4)
    IN  prefixBuffer \o data \o checksum

\* chainPrefix ?? "PR"
OrPR(chainPrefix) == IF chainPrefix = Undefined THEN "PR" ELSE chainPrefix.str

\* convertToBase58, were the version byte put before the digest once only
convertToBase58SingleVersion(pubAddress, chainPrefix) ==
    LET data == BufferFromHex(base58extracted(pubAddress, <<8, 3>>))
        checksum == SubSeq(Sha256(Sha256(data)), 1, 4)
    IN  [pub |-> pubAddress,
         base58 |-> OrPR(chainPrefix) \o base58encode(data \o checksum)]

\* convertToBase58(pubAddress, chainPrefix)
convertToBase58(pubAddress, chainPrefix) ==
    [pub |-> pubAddress,
     base58 |-> OrPR(chainPrefix) \o base58encode(finalData(pubAddress))]

possiblePrefixes == <<"PR", "TZ", "MR", "AA", "PS", "CHAIN">>

IsUpper(c) == \E i \in 1..26 : SubSeq("ABCDEFGHIJKLMNOPQRSTUVWXYZ", i, i) = c

RECURSIVE UpperRun(_, _)
\* the while loop of isValidAddress: the end of the run of A-Z from place i
UpperRun(address, i) ==
    IF i < Len(address) /\ IsUpper(SubSeq(address, i + 1, i + 1))
    THEN UpperRun(address, i + 1)
    ELSE i

\* the chain prefix isValidAddress takes off: the first known prefix the
\* address starts with, else its leading run of A-Z
chainPrefixOf(address) ==
    LET hits == {i \in 1..Len(possiblePrefixes) :
                    StartsWith(address, possiblePrefixes[i])}
    IN  IF hits # {}
        THEN possiblePrefixes[CHOOSE i \in hits : \A j \in hits : i <= j]
        ELSE SubSeq(address, 1, UpperRun(address, 0))

\* isValidAddress(address): a value that is not a string makes startsWith
\* throw, and what is thrown is caught
isValidAddress(address) ==
    IF "str" \notin DOMAIN address THEN FALSE
    ELSE LET base58Part == SubSeq(address.str,
                                  Len(chainPrefixOf(address.str)) + 1,
                                  Len(address.str))
             decoded == base58decode(base58Part)
         IN  IF decoded.threw THEN FALSE
             ELSE LET n == Len(decoded.bytes)
                      cut == IF n > 4 THEN n - 4 ELSE 0
                      checksum == SubSeq(decoded.bytes, cut + 1, n)
                      data == SubSeq(decoded.bytes, 1, cut)
                      expectedChecksum == SubSeq(Sha256(Sha256(data)), 1, 4)
                  IN  checksum = expectedChecksum

-----------------------------------------------------------------------------
(* bip39.  A phrase is the sequence of its words, a word being its place   *)
(* in the English wordlist (0..2047); 2048 is a word that is not in it.    *)

RECURSIVE BitsOf(_, _)
\* the w bits of the number v, most significant first
BitsOf(v, w) == IF w = 0 THEN <<>> ELSE Append(BitsOf(v \div 2, w - 1), v % 2)

RECURSIVE ValueOf(_, _)
\* the number of the first n bits
ValueOf(bits, n) == IF n = 0 THEN 0 ELSE 2 * ValueOf(bits, n - 1) + bits[n]

\* bytesToBinary
bytesToBinary(bytes) ==
    [i \in 1..(8 * Len(bytes)) |->
        BitsOf(bytes[(i + 7) \div 8], 8)[((i - 1) % 8) + 1]]

\* deriveChecksumBits(entropy): the first ENT / 32 bits of its SHA-256
deriveChecksumBits(entropy) ==
    SubSeq(bytesToBinary(Sha256(entropy)), 1, (8 * Len(entropy)) \div 32)

InvalidEntropy == "Invalid entropy"
InvalidMnemonic == "Invalid mnemonic"
InvalidChecksum == "Invalid mnemonic checksum"

\* bip39.entropyToMnemonic(hex text)
entropyToMnemonic(hex) ==
    LET entropy == BufferFromHex(hex)
        n == Len(entropy)
    IN  IF n < 16 \/ n > 32 \/ n % 4 # 0
        THEN [threw |-> TRUE, err |-> InvalidEntropy, words |-> <<>>]
        ELSE LET bits == bytesToBinary(entropy) \o deriveChecksumBits(entropy)
             IN  [threw |-> FALSE, err |-> "",
                  words |-> [w \in 1..(Len(bits) \div 11) |->
                                ValueOf(SubSeq(bits, 11 * w - 10, 11 * w), 11)]]

RECURSIVE WordBits(_, _)
WordBits(words, i) ==
    IF i > Len(words) THEN <<>>
    ELSE BitsOf(words[i], 11) \o WordBits(words, i + 1)

\* mnemonicToEntropy, were the entropy written as the hex text of its
\* number, without its leading zero bytes
mnemonicToEntropyUnpadded(words) ==
    IF Len(words) % 3 # 0 \/ \E i \in 1..Len(words) : words[i] > 2047
    THEN [threw |-> TRUE, err |-> InvalidMnemonic, hex |-> <<>>]
    ELSE LET bits == WordBits(words, 1)
             dividerIndex == (Len(bits) \div 33) * 32
             entropy == [i \in 1..(dividerIndex \div 8) |->
                            ValueOf(SubSeq(bits, 8 * i - 7, 8 * i), 8)]
         IN  IF deriveChecksumBits(entropy)
                    # SubSeq(bits, dividerIndex + 1, Len(bits))
             THEN [threw |-> TRUE, err |-> InvalidChecksum, hex |-> <<>>]
             ELSE [threw |-> FALSE, err |-> "",
                   hex |-> ToHex(StripLeadingZeros(entropy))]

\* bip39.mnemonicToEntropy(words): the entropy's hex text
mnemonicToEntropy(words) ==
    IF Len(words) % 3 # 0 \/ \E i \in 1..Len(words) : words[i] > 2047
    THEN [threw |-> TRUE, err |-> InvalidMnemonic, hex |-> <<>>]
    ELSE LET bits == WordBits(words, 1)
             dividerIndex == (Len(bits) \div 33) * 32
             entropyBits == SubSeq(bits, 1, dividerIndex)
             checksumBits == SubSeq(bits, dividerIndex + 1, Len(bits))
             entropy == [i \in 1..(dividerIndex \div 8) |->
                            ValueOf(SubSeq(entropyBits, 8 * i - 7, 8 * i), 8)]
             n == Len(entropy)
         IN  IF n < 16 \/ n > 32 \/ n % 4 # 0
             THEN [threw |-> TRUE, err |-> InvalidEntropy, hex |-> <<>>]
             ELSE IF deriveChecksumBits(entropy) # checksumBits
             THEN [threw |-> TRUE, err |-> InvalidChecksum, hex |-> <<>>]
             ELSE [threw |-> FALSE, err |-> "", hex |-> ToHex(entropy)]

-----------------------------------------------------------------------------
(* the wallet library: createNewAddress, convertToBase58, isValidAddress,  *)
(* getMnemonic and rescuePrivateKey.  They keep no state; a call leaves    *)
(* its inputs and its result in res.                                       *)

\* a 32-byte scalar with the given number of leading zero bytes
Scalar(a, zeros) ==
    [i \in 1..32 |-> IF i <= zeros THEN 0 ELSE (i * 37 + a) % 256]

\* what ec.genKeyPair() may give: scalars of the curve's range, some with
\* leading zero bytes
Scalars == {Scalar(5, 0), Scalar(9, 0), Scalar(5, 1), Scalar(5, 4)}

\* chain prefixes: recognized ones, an uppercase one that is not
\* recognized, one in lower case, one with a character outside the base58
\* alphabet, and none
ChainPrefixes == {Str("PR"), Str("CHAIN"), Str("ZZ"), Str("pr"), Str("0x"),
                  Undefined}

\* a call of the library: its inputs and what it returned or threw
LibCall(op, arg, outcome, value, err) ==
    /\ res' = Call(op, "", "", arg, outcome, value, err, FALSE, "none", "none")
    /\ UNCHANGED <<writers, lastWriter, tty, session, isLinuxWithoutDisplay, keytarStore, networksFile,
                   securityFile, auditFile, configDir, now>>

\* what createNewAddress(chainPrefix) returns or throws, key being what
\* ec.genKeyPair() gives
createNewAddressResult(chainPrefix, key) ==
    LET prefix == <<8, 3>>
        publicKey == getPublic(key)
        privateKey == getPrivate(key)
        resultStr == base58extracted(publicKey, prefix)
        data == BufferFromHex(resultStr)
        prefixBuffer == BufferFromHex(prefix)
        combined == prefixBuffer \o data
        checksum == SubSeq(Sha256(Sha256(combined)), 1, 4)
        b58 == base58encode(prefixBuffer \o data \o checksum)
        words == entropyToMnemonic(privateKey)
    IN  IF words.threw
        THEN [threw |-> TRUE, err |-> words.err, data |-> Null]
        ELSE [threw |-> FALSE, err |-> "",
              data |-> [pri |-> privateKey, pub |-> OrPR(chainPrefix) \o b58,
                        words |-> words.words, publicKey |-> publicKey]]

\* createNewAddress(chainPrefix), key being what ec.genKeyPair() gives
createNewAddress(chainPrefix, key) ==
    LET r == createNewAddressResult(chainPrefix, key)
    IN  IF r.threw
        THEN LibCall("createNewAddress", [chainPrefix |-> chainPrefix, key |-> key],
                     "throw", Null, r.err)
        ELSE LibCall("createNewAddress", [chainPrefix |-> chainPrefix, key |-> key],
                     "ok", r.data, "")

\* wallet.convertToBase58(publicKey, chainPrefix)
callConvertToBase58(publicKey, chainPrefix) ==
    LibCall("convertToBase58", [publicKey |-> publicKey, chainPrefix |-> chainPrefix],
            "ok", convertToBase58(publicKey, chainPrefix), "")

\* wallet.isValidAddress(address)
callIsValidAddress(address) ==
    LibCall("isValidAddress", address, "ok", [bool |-> isValidAddress(address)], "")

MnemonicError == [error |-> 1, message |-> "There is an error. Check your private key!"]
RescueError == [error |-> 1, message |-> "There is an error. Check your mnemonic words!"]

\* getMnemonic(privateKey)
getMnemonic(privateKey) ==
    LET m == entropyToMnemonic(privateKey)
    IN  LibCall("getMnemonic", privateKey, "ok",
                IF m.threw THEN MnemonicError
                ELSE [error |-> 0, mnemonic |-> m.words],
                "")

\* the data rescuePrivateKey(words, chainPrefix) returns
rescuePrivateKeyResult(words, chainPrefix) ==
    LET e == mnemonicToEntropy(words)
        pubKey == getPubKeyFromPrivate(e.hex)
    IN  IF e.threw \/ pubKey = Undefined THEN RescueError
        ELSE [pri |-> e.hex,
              base58 |-> convertToBase58(pubKey.hex, chainPrefix)]

\* rescuePrivateKey(words, chainPrefix)
rescuePrivateKey(words, chainPrefix) ==
    LibCall("rescuePrivateKey", [words |-> words, chainPrefix |-> chainPrefix],
            "ok", rescuePrivateKeyResult(words, chainPrefix), "")

\* the public points of the scalars
PublicPoints == {getPublic(k) : k \in Scalars}

\* the address of every point under every prefix
DerivedAddresses ==
    {convertToBase58(p, c).base58 : p \in PublicPoints, c \in ChainPrefixes}

\* one address, and the bytes it encodes
SampleAddress == convertToBase58(getPublic(Scalar(5, 0)), Str("PR")).base58
SampleData == finalData(getPublic(Scalar(5, 0)))

\* what is not an address: no text, text with characters outside the base58
\* alphabet, a value that is no string, an address whose last checksum byte
\* is changed, an address without its last character, and the base58 text
\* of the checksum of no data
MalformedAddresses ==
    {Str(""), Str("hello world"), Str("0OIl"), Null,
     Str("PR" \o base58encode([SampleData EXCEPT ![Len(SampleData)] = (@ + 1) % 256])),
     Str(SubSeq(SampleAddress, 1, Len(SampleAddress) - 1)),
     Str(base58encode(SubSeq(Sha256(Sha256(<<>>)), 1, 4)))}

\* private keys as hex text: the 32 bytes of each scalar, what getPrivate
\* gives for it, and 16 bytes
PrivateKeyTexts ==
    {ToHex(k) : k \in Scalars} \cup {getPrivate(k) : k \in Scalars}
    \cup {ToHex(SubSeq(Scalar(5, 0), 1, 16))}

\* the phrase of a 32-byte key
SamplePhrase == entropyToMnemonic(ToHex(Scalar(5, 0))).words

\* phrases: those of the key texts that have one, a phrase whose last word
\* is changed, one without its last word, and one with a word that is not
\* in the wordlist
Phrases ==
    {entropyToMnemonic(t).words : t \in {x \in PrivateKeyTexts : ~entropyToMnemonic(x).threw}}
    \cup {[SamplePhrase EXCEPT ![24] = (@ + 1) % 2048],
          SubSeq(SamplePhrase, 1, 23),
          [SamplePhrase EXCEPT ![3] = 2048]}

-----------------------------------------------------------------------------
(* the two backends side by side: one sequence of set, get and delete      *)
(* calls, each made on the file fallback (what the wrappers call on a      *)
(* machine without a display) and on the native service (what they call    *)
(* elsewhere, the service answering).  Both stores start empty.            *)

\* the keys and the values of the calls: keys the manager uses and one it
\* never sets, values the manager stores and the empty string
BackendKeys == {"network:testnet", "config:activeNetwork", "config:unset"}
BackendValues == {Str(""), Str("testnet"), Json(NetworkData("testnet"))}

\* what a caller of the wrapper sees: the value returned or the error thrown
Returned(o) == IF o.threw THEN [threw |-> o.err] ELSE [returned |-> o.value]

\* the two outcomes of one call, f on the file and n on the native service
BackendCall(op, key, value, f, n) ==
    /\ networksFile' = f.nf
    /\ configDir' = f.dir
    /\ keytarStore' = n.ks
    /\ res' = Call(op, key, "", value, "ok",
                   [file |-> Returned(f), native |-> Returned(n)], "", FALSE,
                   "ok", "both")
    /\ UNCHANGED <<writers, lastWriter, tty, session, isLinuxWithoutDisplay, securityFile, auditFile, now>>

backendSet(key, value) ==
    BackendCall("set", key, value, fileBasedSet(key, value, "none"),
                keytarSetPassword(key, value, "ok"))

backendGet(key) ==
    BackendCall("get", key, "", fileBasedGet(key, "none"),
                keytarGetPassword(key, "ok"))

backendDelete(key) ==
    BackendCall("delete", key, "", fileBasedDelete(key, "none"),
                keytarDeletePassword(key, "ok"))

-----------------------------------------------------------------------------
(* the commands of src/commands/scenario.js.  A command is one process: it *)
(* makes a new PSCESecurityManager, calls its methods one after the other  *)
(* and ends.  s is the secret store and the audit log as the calls made so *)
(* far have left them; kt is what the native service does while the        *)
(* command runs.                                                           *)

\* what the native service does during a command
CommandModes == {"ok", "dbus"}
\* the first two characters of the genesis block's producerAddress, or null
\* when the node does not answer
NodeAnswers == {Str("PR"), Str("TE"), Null}
\* the key ec.genKeyPair() gives to address generate
GeneratedKey == Scalar(5, 0)
\* the phrases typed at address import: the one of a 32-byte key, and one
\* of 23 words
ImportPhrases == {SamplePhrase, SubSeq(SamplePhrase, 1, 23)}
\* the names given to an address
AddressNames == {"main"}

\* createNewAddress and rescuePrivateKey for the prefixes of the networks
NetworkPrefixes == {a.str : a \in NodeAnswers \ {Null}}
Generated == [c \in NetworkPrefixes |-> createNewAddressResult(Str(c), GeneratedKey)]
Rescued ==
    [w \in {x \in ImportPhrases : Len(x) = 24}, c \in NetworkPrefixes |->
        rescuePrivateKeyResult(w, Str(c))]
\* the addresses the commands may store
CommandAddresses ==
    {Generated[c].data.pub : c \in NetworkPrefixes}
    \cup {Rescued[SamplePhrase, c].base58.base58 : c \in NetworkPrefixes}
\* the names typed where a network name is expected
CommandNames == NetworkNames \cup {"address:" \o a : a \in CommandAddresses}
\* the identifiers typed at address remove: an address or the name of one
Identifiers == CommandAddresses \cup AddressNames
IdentifierIsValid == [i \in Identifiers |-> isValidAddress(Str(i))]

\* the private key text as a block of the cipher
KeyCode(pri) == pri[Len(pri)] % 4

StoreNow ==
    [ks |-> keytarStore, nf |-> networksFile, dir |-> configDir,
     audit |-> auditFile]

Done(s, value) == [s |-> s, threw |-> FALSE, err |-> "", value |-> value]
Thrown(s, err) == [s |-> s, threw |-> TRUE, err |-> err, value |-> Null]

\* !value of JavaScript, for null and for a string
Falsy(v) == v = Null \/ v = Str("")

fileBasedSetIn(s, key, value) ==
    LET data == IF s.nf.exists THEN s.nf.data ELSE EmptyMap
    IN  Done([s EXCEPT !.nf = [exists |-> TRUE, data |-> Put(data, key, value),
                               mode |-> "0600"],
                       !.dir = TRUE],
             [bool |-> TRUE])

fileBasedGetIn(s, key) ==
    Done(s, IF s.nf.exists /\ Has(s.nf.data, key) /\ s.nf.data[key] # Str("")
            THEN s.nf.data[key]
            ELSE Null)

fileBasedDeleteIn(s, key) ==
    Done(IF s.nf.exists THEN [s EXCEPT !.nf.data = Del(@, key)] ELSE s,
         [bool |-> TRUE])

safeKeytarSetIn(s, key, value, kt) ==
    IF isLinuxWithoutDisplay THEN fileBasedSetIn(s, key, value)
    ELSE IF value = Str("") THEN Thrown(s, RequiredMsg)
    ELSE IF kt = "ok" THEN Done([s EXCEPT !.ks = Put(@, key, value)], Null)
    ELSE IF IsCapabilityError(kt) THEN fileBasedSetIn(s, key, value)
    ELSE Thrown(s, KeytarMsg(kt))

safeKeytarGetIn(s, key, kt) ==
    IF isLinuxWithoutDisplay THEN fileBasedGetIn(s, key)
    ELSE IF kt = "ok" THEN Done(s, IF Has(s.ks, key) THEN s.ks[key] ELSE Null)
    ELSE IF IsCapabilityError(kt) THEN fileBasedGetIn(s, key)
    ELSE Thrown(s, KeytarMsg(kt))

safeKeytarDeleteIn(s, key, kt) ==
    IF isLinuxWithoutDisplay THEN fileBasedDeleteIn(s, key)
    ELSE IF kt = "ok"
    THEN Done([s EXCEPT !.ks = Del(@, key)], [bool |-> Has(s.ks, key)])
    ELSE IF IsCapabilityError(kt) THEN fileBasedDeleteIn(s, key)
    ELSE Thrown(s, KeytarMsg(kt))

\* security.storeNetwork(name, data)
storeNetworkIn(s, name, data, kt) ==
    LET o == safeKeytarSetIn(s, networkKey(name), Json(data), kt)
    IN  IF o.threw THEN Thrown(o.s, "Failed to store network: " \o o.err)
        ELSE Done(o.s, Null)

\* security.getNetwork(name): null, or the object JSON.parse gives
getNetworkIn(s, name, kt) ==
    LET o == safeKeytarGetIn(s, networkKey(name), kt)
    IN  IF o.threw \/ Falsy(o.value) THEN o ELSE Done(o.s, o.value.json)

\* security.getAllNetworks(): the object it returns, by name
getAllNetworksIn(s, kt) ==
    IF isLinuxWithoutDisplay \/ kt # "ok"
    THEN IF s.nf.exists THEN NetworksOf(s.nf.data) ELSE EmptyMap
    ELSE NetworksOf(s.ks)

\* security.removeNetwork(name)
removeNetworkIn(s, name, kt) ==
    LET o == safeKeytarDeleteIn(s, networkKey(name), kt)
    IN  IF o.threw THEN o ELSE Done(o.s, Null)

\* security.setActiveNetwork(name)
setActiveNetworkIn(s, name, kt) ==
    LET o == safeKeytarSetIn(s, activeNetworkKey, Str(name), kt)
    IN  IF o.threw THEN o ELSE Done(o.s, Null)

\* security.getActiveNetwork(): the name, or null
getActiveNetworkIn(s, kt) ==
    LET o == safeKeytarGetIn(s, activeNetworkKey, kt)
    IN  IF o.threw THEN Null ELSE o.value

\* security.setActiveAddress(address)
setActiveAddressIn(s, address, kt) ==
    LET o == safeKeytarSetIn(s, activeAddressKey, Str(address), kt)
    IN  IF o.threw THEN o ELSE Done(o.s, Null)

\* security.getActiveAddress(): the address, or null
getActiveAddressIn(s, kt) ==
    LET o == safeKeytarGetIn(s, activeAddressKey, kt)
    IN  IF o.threw THEN Null ELSE o.value

\* security.removeWallet(address): keytar.deletePassword, unwrapped
removeWalletIn(s, address, kt) ==
    IF kt = "ok" THEN Done([s EXCEPT !.ks = Del(@, walletKey(address))], Null)
    ELSE Thrown(s, KeytarMsg(kt))

\* the audit log after logAudit(...) of a command
logAuditIn(s, action, target, success, metadata) ==
    [state |-> "json",
     entries |-> Append(IF s.audit.state = "json" THEN s.audit.entries ELSE <<>>,
                        AuditEntry(action, target, success, metadata))]

\* security.storeWallet(address, privateKey): keytar.setPassword, unwrapped,
\* then logAudit, which throws when ~/.psce does not exist
storeWalletIn(s, address, privateKey, masterPassword, salt, iv, kt) ==
    LET data == Json(encryptedData(KeyCode(privateKey), masterPassword, salt, iv))
        put == IF kt = "ok" THEN [s EXCEPT !.ks = Put(@, walletKey(address), data)]
               ELSE s
    IN  IF ~s.dir THEN Thrown(put, EnoentMsg)
        ELSE IF kt # "ok"
        THEN Thrown([put EXCEPT !.audit =
                        logAuditIn(s, "WALLET_STORE", address, FALSE,
                                   [error |-> KeytarMsg(kt)])],
                    KeytarMsg(kt))
        ELSE Done([put EXCEPT !.audit =
                      logAuditIn(s, "WALLET_STORE", address, TRUE, EmptyMap)],
                  [bool |-> TRUE])

\* what addNetwork and testNetwork store under network:<name>
networkData(name, prefix) ==
    [name |-> name, url |-> "https://node.example", prefix |-> prefix,
     lastTested |-> now]

\* what generateAddress and importAddress store under network:address:<address>
addressMetadata(addressName, address, networkName, networkPrefix, how) ==
    [name |-> addressName, address |-> address, network |-> networkName,
     prefix |-> networkPrefix, createdAt |-> now, how |-> how]

\* the end of a command: sess is the session of its manager, s what its
\* calls left, outcome what it printed last
Command(op, target, arg, sess, s, outcome, value, kt) ==
    /\ session' = sess
    /\ keytarStore' = s.ks
    /\ networksFile' = s.nf
    /\ configDir' = s.dir
    /\ auditFile' = s.audit
    /\ res' = Call(op, target, "", arg, outcome, value, "", FALSE, kt, "none")
    /\ UNCHANGED <<isLinuxWithoutDisplay, securityFile, now, writers,
                   lastWriter, tty>>

\* the session of a manager that has called one of the network methods
Ensured(hex) == ensureSession(NewSession, hex)

\* psce network add <name> <url>, answer being what the node says
addNetwork(name, answer, kt, hex) ==
    IF answer = Null
    THEN Command("addNetwork", name, answer, NewSession, StoreNow, "throw",
                 Null, kt)
    ELSE LET o == storeNetworkIn(StoreNow, name, networkData(name, answer.str), kt)
         IN  Command("addNetwork", name, answer, Ensured(hex), o.s,
                     IF o.threw THEN "throw" ELSE "ok", Null, kt)

\* psce network list
listNetworks(kt, hex) ==
    LET allData == getAllNetworksIn(StoreNow, kt)
        activeNetwork == getActiveNetworkIn(StoreNow, kt)
        keys == {k \in DOMAIN allData : ~StartsWith(k, "address:")}
    IN  Command("listNetworks", "", "", Ensured(hex), StoreNow, "ok",
                [nets |-> [k \in keys |-> allData[k]], active |-> activeNetwork],
                kt)

\* psce network set <name>
commandSetActiveNetwork(name, kt, hex) ==
    LET networks == getAllNetworksIn(StoreNow, kt)
        o == setActiveNetworkIn(StoreNow, name, kt)
    IN  IF ~Has(networks, name)
        THEN Command("network set", name, "", Ensured(hex), StoreNow,
                     "not found", Null, kt)
        ELSE Command("network set", name, "", Ensured(hex), o.s,
                     IF o.threw THEN "throw" ELSE "ok", networks[name], kt)

\* psce network test <name>, reachable being whether the node answers
testNetwork(name, reachable, kt, hex) ==
    LET networks == getAllNetworksIn(StoreNow, kt)
        data == networks[name]
        o == storeNetworkIn(StoreNow, name, [data EXCEPT !.lastTested = now], kt)
    IN  IF ~Has(networks, name)
        THEN Command("network test", name, reachable, Ensured(hex), StoreNow,
                     "not found", Null, kt)
        ELSE IF ~reachable \/ ~Has(data, "url")
        THEN \* fetch throws, for a record without url as well
             Command("network test", name, reachable, Ensured(hex), StoreNow,
                     "failed", data, kt)
        ELSE Command("network test", name, reachable, Ensured(hex), o.s,
                     IF o.threw THEN "failed" ELSE "ok", data, kt)

\* psce network remove <name>
commandRemoveNetwork(name, kt, hex) ==
    LET networks == getAllNetworksIn(StoreNow, kt)
        activeNetwork == getActiveNetworkIn(StoreNow, kt)
        o == removeNetworkIn(StoreNow, name, kt)
    IN  IF ~Has(networks, name)
        THEN Command("network remove", name, "", Ensured(hex), StoreNow,
                     "not found", Null, kt)
        ELSE IF activeNetwork = Str(name)
        THEN Command("network remove", name, "", Ensured(hex), StoreNow,
                     "active", networks[name], kt)
        ELSE Command("network remove", name, "", Ensured(hex), o.s,
                     IF o.threw THEN "throw" ELSE "ok", networks[name], kt)

\* the end of generateAddress and importAddress: storeWallet, then
\* storeNetwork of the metadata, both in one try block
saveAddress(op, arg, address, privateKey, metadata, masterPassword, salt, iv, kt, hex) ==
    LET w == storeWalletIn(StoreNow, address, privateKey, masterPassword, salt,
                           iv, kt)
        m == storeNetworkIn(w.s, "address:" \o address, metadata, kt)
    IN  IF w.threw
        THEN Command(op, address, arg, Ensured(hex), w.s, "not saved",
                     metadata, kt)
        ELSE Command(op, address, arg, Ensured(hex), m.s,
                     IF m.threw THEN "not saved" ELSE "ok", metadata, kt)

\* psce address generate --name <addressName>, proceed being the answer to
\* the confirmation
generateAddress(proceed, addressName, masterPassword, salt, iv, kt, hex) ==
    LET networkName == getActiveNetworkIn(StoreNow, kt)
        net == getNetworkIn(StoreNow, networkName.str, kt)
        networkPrefix == net.value.prefix
        newAddress == Generated[networkPrefix]
    IN  IF Falsy(networkName)
        THEN Command("generateAddress", "", proceed, Ensured(hex), StoreNow,
                     "no network", Null, kt)
        ELSE IF net.threw
        THEN Command("generateAddress", "", proceed, Ensured(hex), StoreNow,
                     "throw", Null, kt)
        ELSE IF Falsy(net.value)
        THEN Command("generateAddress", "", proceed, Ensured(hex), StoreNow,
                     "not found", Null, kt)
        ELSE IF ~proceed
        THEN Command("generateAddress", "", proceed, Ensured(hex), StoreNow,
                     "cancelled", Null, kt)
        ELSE IF newAddress.threw
        THEN Command("generateAddress", "", proceed, Ensured(hex), StoreNow,
                     "throw", Null, kt)
        ELSE saveAddress("generateAddress", proceed, newAddress.data.pub,
                         newAddress.data.pri,
                         addressMetadata(addressName, newAddress.data.pub,
                                         networkName.str, networkPrefix,
                                         "generated"),
                         masterPassword, salt, iv, kt, hex)

\* psce address import --name <addressName>, words being the phrase typed
importAddress(words, proceed, addressName, masterPassword, salt, iv, kt, hex) ==
    LET networkName == getActiveNetworkIn(StoreNow, kt)
        net == getNetworkIn(StoreNow, networkName.str, kt)
        networkPrefix == net.value.prefix
        rescueResult == Rescued[words, networkPrefix]
        address == rescueResult.base58.base58
    IN  IF Len(words) # 24
        THEN Command("importAddress", "", words, NewSession, StoreNow,
                     "word count", Null, kt)
        ELSE IF Falsy(networkName)
        THEN Command("importAddress", "", words, Ensured(hex), StoreNow,
                     "no network", Null, kt)
        ELSE IF net.threw
        THEN Command("importAddress", "", words, Ensured(hex), StoreNow,
                     "throw", Null, kt)
        ELSE IF Falsy(net.value)
        THEN Command("importAddress", "", words, Ensured(hex), StoreNow,
                     "not found", Null, kt)
        ELSE IF ~proceed
        THEN Command("importAddress", "", words, Ensured(hex), StoreNow,
                     "cancelled", Null, kt)
        ELSE IF "error" \in DOMAIN rescueResult
        THEN Command("importAddress", "", words, Ensured(hex), StoreNow,
                     "import failed", Null, kt)
        ELSE IF ~StartsWith(address, networkPrefix)
        THEN Command("importAddress", address, words, Ensured(hex), StoreNow,
                     "prefix mismatch",
                     [address |-> address, prefix |-> networkPrefix], kt)
        ELSE saveAddress("importAddress", words, address, rescueResult.pri,
                         addressMetadata(addressName, address, networkName.str,
                                         networkPrefix, "mnemonic-24words"),
                         masterPassword, salt, iv, kt, hex)

\* the addresses removeAddress may resolve an identifier to: the identifier
\* when it has the form of an address, else an address stored under that
\* name ("" when there is none)
Resolved(identifier, kt) ==
    LET networks == getAllNetworksIn(StoreNow, kt)
        found == {StripPrefix(k, "address:") :
                     k \in {x \in DOMAIN networks :
                               /\ StartsWith(x, "address:")
                               /\ networks[x].name = identifier}}
    IN  IF IdentifierIsValid[identifier] THEN {identifier}
        ELSE IF found = {} THEN {""}
        ELSE found

\* psce address remove <identifier>, address being what the identifier
\* resolves to and proceed the answer to the confirmation
removeAddress(identifier, address, proceed, kt, hex) ==
    LET metadata == IF address = "" THEN Done(StoreNow, Null)
                    ELSE getNetworkIn(StoreNow, "address:" \o address, kt)
        activeAddress == getActiveAddressIn(StoreNow, kt)
        w == removeWalletIn(StoreNow, address, kt)
        m == removeNetworkIn(w.s, "address:" \o address, kt)
        a == setActiveAddressIn(m.s, "", kt)
    IN  /\ address \in Resolved(identifier, kt)
        /\ IF metadata.threw
           THEN Command("removeAddress", identifier, proceed, Ensured(hex),
                        StoreNow, "throw", Null, kt)
           ELSE IF address = "" \/ Falsy(metadata.value)
           THEN Command("removeAddress", identifier, proceed, Ensured(hex),
                        StoreNow, "not found", Null, kt)
           ELSE IF ~proceed
           THEN Command("removeAddress", identifier, proceed, Ensured(hex),
                        StoreNow, "cancelled", metadata.value, kt)
           ELSE IF w.threw
           THEN Command("removeAddress", identifier, proceed, Ensured(hex),
                        w.s, "not removed", metadata.value, kt)
           ELSE IF m.threw
           THEN Command("removeAddress", identifier, proceed, Ensured(hex),
                        m.s, "not removed", metadata.value, kt)
           ELSE IF activeAddress = Str(address)
           THEN Command("removeAddress", identifier, proceed, Ensured(hex),
                        a.s, IF a.threw THEN "not removed" ELSE "ok",
                        metadata.value, kt)
           ELSE Command("removeAddress", identifier, proceed, Ensured(hex),
                        m.s, "ok", metadata.value, kt)

-----------------------------------------------------------------------------
(* fileBasedSet and fileBasedDelete, one file-system call at a time, run   *)
(* by processes that share ~/.psce/networks.json.  A process keeps what it *)
(* read (data) until it writes.                                            *)

\* the keys and values of the calls
FileKeys == {"network:testnet", "config:activeNetwork"}
FileValues == {Str("testnet"), Json(NetworkData("testnet"))}
\* the permission of a file that writeFileSync creates: 0666 without the
\* bits of the umask of the process (022 or 077)
CreateModes == {"0644", "0600"}

\* what a process writes, were the file read again at the write
WrittenMerged(w) ==
    LET data == IF networksFile.exists THEN networksFile.data ELSE w.data
    IN  IF w.op = "set" THEN Put(data, w.key, w.value) ELSE Del(data, w.key)

\* what a process writes: the object it parsed, with its key set or deleted
Written(w) ==
    IF w.op = "set" THEN Put(w.data, w.key, w.value) ELSE Del(w.data, w.key)

\* a step of process p inside fileBasedSet or fileBasedDelete
FileStep(p, w, nf, dir, last) ==
    /\ writers' = [writers EXCEPT ![p] = w]
    /\ networksFile' = nf
    /\ configDir' = dir
    /\ lastWriter' = last
    /\ res' = IF w.pc = "idle"
              THEN Call(IF w.op = "set" THEN "fileBasedSet" ELSE "fileBasedDelete",
                        w.key, "", [process |-> p], "ok", [bool |-> TRUE], "",
                        FALSE, "none", "file")
              ELSE res
    /\ UNCHANGED <<session, isLinuxWithoutDisplay, keytarStore, securityFile,
                   auditFile, now, tty>>

\* fileBasedSet(key, value): existsSync / mkdirSync of ~/.psce
fileBasedSetMkdir(p, key, value) ==
    /\ writers[p].pc = "idle"
    /\ FileStep(p, [pc |-> "read", op |-> "set", key |-> key, value |-> value,
                    data |-> EmptyMap, wrote |-> FALSE],
                networksFile, TRUE, lastWriter)

\* fileBasedSet: existsSync, readFileSync and JSON.parse
fileBasedSetRead(p) ==
    /\ writers[p].pc = "read" /\ writers[p].op = "set"
    /\ FileStep(p, [writers[p] EXCEPT
                       !.pc = "write",
                       !.data = IF networksFile.exists THEN networksFile.data
                                ELSE EmptyMap],
                networksFile, configDir, lastWriter)

\* fileBasedSet: data[key] = value and writeFileSync, created being the
\* permission the file gets when the call creates it
fileBasedSetWrite(p, created) ==
    /\ writers[p].pc = "write" /\ writers[p].op = "set"
    /\ FileStep(p, [writers[p] EXCEPT !.pc = "chmod", !.wrote = TRUE],
                [exists |-> TRUE, data |-> Written(writers[p]),
                 mode |-> IF networksFile.exists THEN networksFile.mode
                          ELSE created],
                configDir, p)

\* fileBasedSet: chmodSync(0o600) and return true
fileBasedSetChmod(p) ==
    /\ writers[p].pc = "chmod"
    /\ FileStep(p, [writers[p] EXCEPT !.pc = "idle"],
                [networksFile EXCEPT !.mode = "0600"], configDir, lastWriter)

\* fileBasedDelete(key): existsSync, and return true when there is no file
fileBasedDeleteExists(p, key) ==
    /\ writers[p].pc = "idle"
    /\ FileStep(p, [pc |-> IF networksFile.exists THEN "read" ELSE "idle",
                    op |-> "delete", key |-> key, value |-> Null,
                    data |-> EmptyMap, wrote |-> FALSE],
                networksFile, configDir, lastWriter)

\* fileBasedDelete: readFileSync and JSON.parse
fileBasedDeleteRead(p) ==
    /\ writers[p].pc = "read" /\ writers[p].op = "delete"
    /\ FileStep(p, [writers[p] EXCEPT !.pc = "write",
                                      !.data = networksFile.data],
                networksFile, configDir, lastWriter)

\* fileBasedDelete: delete data[key], writeFileSync and return true
fileBasedDeleteWrite(p, created) ==
    /\ writers[p].pc = "write" /\ writers[p].op = "delete"
    /\ FileStep(p, [writers[p] EXCEPT !.pc = "idle", !.wrote = TRUE],
                [exists |-> TRUE, data |-> Written(writers[p]),
                 mode |-> IF networksFile.exists THEN networksFile.mode
                          ELSE created],
                configDir, p)

-----------------------------------------------------------------------------
(* askSecureInput.  What arrives on stdin is a chunk, the sequence of its  *)
(* character codes; input is the text typed so far, as codes.              *)

\* the chunks stdin may deliver: a letter, a space, Enter, Ctrl+C,
\* backspace, Ctrl+D, a pasted chunk that starts with a tab, and a pasted
\* chunk that starts with a letter and ends with a line feed
Chunks == {<<97>>, <<32>>, <<13>>, <<3>>, <<127>>, <<4>>, <<9, 98>>, <<97, 10>>}
\* the prompt takes no more characters than this
MaxInput == 3

IsPrintable(c) == c >= 32 /\ c <= 126
\* the white space String.prototype.trim removes
IsSpace(c) == c \in {9, 10, 11, 12, 13, 32}

RECURSIVE Printables(_)
\* the printable characters of a chunk, in their order
Printables(chunk) ==
    IF chunk = <<>> THEN <<>>
    ELSE (IF IsPrintable(Head(chunk)) THEN <<Head(chunk)>> ELSE <<>>)
         \o Printables(Tail(chunk))

RECURSIVE Trim(_)
\* input.trim()
Trim(text) ==
    IF text = <<>> THEN <<>>
    ELSE IF IsSpace(Head(text)) THEN Trim(Tail(text))
    ELSE IF IsSpace(text[Len(text)]) THEN Trim(SubSeq(text, 1, Len(text) - 1))
    ELSE text

\* a step of the prompt that leaves everything but the terminal alone
PromptStep(t, r) ==
    /\ tty' = t
    /\ res' = r
    /\ UNCHANGED <<session, isLinuxWithoutDisplay, keytarStore, networksFile,
                   securityFile, auditFile, configDir, now, writers,
                   lastWriter>>

\* askSecureInput(question) up to process.stdin.on("data", onData)
askSecureInput ==
    /\ tty.process = "running"
    /\ tty.prompt # "waiting"
    /\ PromptStep([rawMode |-> TRUE, prompt |-> "waiting", input |-> <<>>,
                   listening |-> TRUE, process |-> "running"],
                  res)

\* onData(char)
onData(char) ==
    LET code == char[1]
        more == IF IsPrintable(code) THEN char
                ELSE IF Len(char) > 1 THEN Printables(char)
                ELSE <<>>
    IN  /\ tty.process = "running"
        /\ tty.listening
        /\ Len(tty.input) + Len(more) <= MaxInput
        /\ IF code = 13 \/ code = 10
           THEN PromptStep([tty EXCEPT !.rawMode = FALSE, !.listening = FALSE,
                                       !.prompt = "resolved"],
                           Call("askSecureInput", "", "", tty.input, "ok",
                                [text |-> Trim(tty.input)], "", TRUE, "none",
                                "none"))
           ELSE IF code = 3
           THEN PromptStep([tty EXCEPT !.rawMode = FALSE, !.listening = FALSE,
                                       !.process = "exited"],
                           Call("askSecureInput", "", "", tty.input, "exit",
                                Null, "", TRUE, "none", "none"))
           ELSE IF code = 127 \/ code = 8
           THEN PromptStep([tty EXCEPT !.input =
                               IF Len(@) > 0 THEN SubSeq(@, 1, Len(@) - 1)
                               ELSE @],
                           res)
           ELSE PromptStep([tty EXCEPT !.input = @ \o more], res)

\* stdin ends while the prompt waits: nothing listens for "end", nothing
\* keeps the process alive, and it exits by itself with the promise pending;
\* the runtime resets the terminal when the process exits by itself
stdinEnd ==
    /\ tty.process = "running"
    /\ tty.prompt = "waiting"
    /\ PromptStep([tty EXCEPT !.rawMode = FALSE, !.listening = FALSE,
                              !.process = "exited"],
                  Call("askSecureInput", "", "", tty.input, "end", Null, "",
                       TRUE, "none", "none"))

\* the process is killed while the prompt waits: no code of the process
\* runs any more
killed ==
    /\ tty.process = "running"
    /\ tty.prompt = "waiting"
    /\ PromptStep([tty EXCEPT !.listening = FALSE, !.process = "exited"],
                  Call("askSecureInput", "", "", tty.input, "killed", Null, "",
                       TRUE, "none", "none"))

-----------------------------------------------------------------------------
(* specifications *)

\* Every process starts with a new session; ~/.psce may be there already
\* (setup creates it before it validates anything).
InitDisplay == Init /\ ~isLinuxWithoutDisplay
\* a machine without a display: every call goes to the file fallback
InitNoDisplay == Init /\ isLinuxWithoutDisplay

\* setup, storeWallet and getWallet over every password, key, salt and iv
WalletNext ==
    /\ AuditRoom(MaxAudit)
    /\ \/ \E t \in {"", "0"}, p \in Passwords, c \in Passwords, s \in Salts :
              setup(t, p, c, s)
       \/ \E a \in Addresses, k \in PrivateKeys, p \in Passwords, s \in Salts,
             iv \in Ivs, kt \in {"ok", "dbus"} :
              storeWallet(a, k, p, s, iv, kt)
       \/ \E a \in Addresses, p \in Passwords, kt \in {"ok", "dbus"} :
              getWallet(a, p, kt)

\* the session over time: setup, the wallet methods and the clock
SessionNext ==
    \/ /\ AuditRoom(MaxSessionAudit)
       /\ \/ \E t \in {"0", "1"}, p \in SessionPasswords, c \in SessionPasswords :
                 setup(t, p, c, 0)
          \/ \E a \in Addresses, p \in SessionPasswords :
                 storeWallet(a, 1, p, 0, 2, "ok")
          \/ \E a \in Addresses, p \in SessionPasswords : getWallet(a, p, "ok")
          \/ \E a \in Addresses, p \in SessionPasswords :
                 getWalletFresh(a, p, "ok")
          \/ \E a \in Addresses : getWalletFromSession(a, "ok")
    \/ clearSession
    \/ \E d \in Ticks : Tick(d)

\* the methods that go to the secret store
StoreNext ==
    \/ \E n \in StoreNames, kt \in KeytarModes, h \in RandomHex :
           storeNetwork(n, kt, h)
    \/ \E n \in StoreNames, kt \in KeytarModes, h \in RandomHex :
           getNetwork(n, kt, h)
    \/ \E n \in StoreNames, kt \in KeytarModes, h \in RandomHex :
           removeNetwork(n, kt, h)
    \/ \E a \in Addresses, kt \in KeytarModes, h \in RandomHex :
           removeWallet(a, kt, h)
    \/ \E n \in NetworkNames, kt \in KeytarModes, h \in RandomHex :
           setActiveNetwork(n, kt, h)
    \/ \E kt \in KeytarModes, h \in RandomHex : getActiveNetwork(kt, h)
    \/ \E a \in Addresses, kt \in KeytarModes, h \in RandomHex :
           setActiveAddress(a, kt, h)
    \/ \E kt \in KeytarModes, h \in RandomHex : getActiveAddress(kt, h)
    \/ \E kt1 \in KeytarModes, kt2 \in KeytarModes, h \in RandomHex :
           getAllNetworks(kt1, kt2, h)
    \/ /\ AuditRoom(MaxStoreAudit)
       /\ \/ \E a \in Addresses, kt \in KeytarModes :
                 storeWallet(a, 1, "secret1", 0, 2, kt)
          \/ \E a \in Addresses, kt \in KeytarModes :
                 getWallet(a, "secret1", kt)

\* every method of the manager, the native service answering
Next ==
    \/ /\ AuditRoom(MaxAudit)
       /\ \/ \E t \in {"0", "1"}, p \in SessionPasswords, c \in SessionPasswords :
                 setup(t, p, c, 0)
          \/ \E a \in Addresses, p \in SessionPasswords :
                 storeWallet(a, 1, p, 0, 2, "ok")
          \/ \E a \in Addresses, p \in SessionPasswords : getWallet(a, p, "ok")
          \/ \E a \in Addresses, p \in SessionPasswords :
                 getWalletFresh(a, p, "ok")
          \/ \E a \in Addresses : getWalletFromSession(a, "ok")
    \/ clearSession
    \/ \E n \in StoreNames, h \in RandomHex : storeNetwork(n, "ok", h)
    \/ \E n \in StoreNames, h \in RandomHex : getNetwork(n, "ok", h)
    \/ \E n \in StoreNames, h \in RandomHex : removeNetwork(n, "ok", h)
    \/ \E a \in Addresses, h \in RandomHex : removeWallet(a, "ok", h)
    \/ \E n \in NetworkNames, h \in RandomHex : setActiveNetwork(n, "ok", h)
    \/ \E h \in RandomHex : getActiveNetwork("ok", h)
    \/ \E a \in Addresses, h \in RandomHex : setActiveAddress(a, "ok", h)
    \/ \E h \in RandomHex : getActiveAddress("ok", h)
    \/ \E h \in RandomHex : getAllNetworks("ok", "ok", h)

\* set, get and delete on both backends
BackendNext ==
    \/ \E k \in BackendKeys, v \in BackendValues : backendSet(k, v)
    \/ \E k \in BackendKeys : backendGet(k)
    \/ \E k \in BackendKeys : backendDelete(k)

\* the address functions of the wallet library
AddressNext ==
    \/ \E c \in ChainPrefixes, k \in Scalars : createNewAddress(c, k)
    \/ \E p \in PublicPoints, c \in ChainPrefixes : callConvertToBase58(p, c)
    \/ \E a \in {Str(d) : d \in DerivedAddresses} \cup MalformedAddresses :
           callIsValidAddress(a)

\* the mnemonic functions of the wallet library
MnemonicNext ==
    \/ \E c \in {Str("PR"), Undefined}, k \in Scalars : createNewAddress(c, k)
    \/ \E t \in PrivateKeyTexts : getMnemonic(t)
    \/ \E w \in Phrases, c \in {Str("PR"), Undefined} : rescuePrivateKey(w, c)

\* the session from one process to the next: setup, the wallet methods, a
\* method that calls ensureSession, the clock, and a new manager
LifetimeNext ==
    \/ /\ AuditRoom(MaxSessionAudit)
       /\ \/ \E t \in {"0", "1"} : setup(t, "secret1", "secret1", 0)
          \/ \E a \in Addresses : storeWallet(a, 1, "secret1", 0, 2, "ok")
          \/ \E a \in Addresses : getWalletFresh(a, "secret1", "ok")
          \/ \E a \in Addresses : getWalletFromSession(a, "ok")
    \/ clearSession
    \/ \E h \in RandomHex : getActiveNetwork("ok", h)
    \/ \E d \in Ticks : Tick(d)
    \/ callIsSessionValid
    \/ newManager

\* the methods that write the audit log, and a process killed while it
\* writes it
AuditNext ==
    \/ /\ AuditRoom(MaxAudit)
       /\ \/ \E t \in {"", "0"}, p \in SessionPasswords, c \in SessionPasswords :
                 setup(t, p, c, 0)
          \/ \E a \in Addresses, k \in PrivateKeys, kt \in {"ok", "dbus"} :
                 storeWallet(a, k, "secret1", 0, 2, kt)
          \/ \E a \in Addresses, p \in SessionPasswords : getWallet(a, p, "ok")
    \/ \E k \in 0..MaxAudit : logAuditKilled(k)

\* two processes inside fileBasedSet and fileBasedDelete
FileNext ==
    \/ \E p \in Procs, k \in FileKeys, v \in FileValues : fileBasedSetMkdir(p, k, v)
    \/ \E p \in Procs : fileBasedSetRead(p)
    \/ \E p \in Procs, m \in CreateModes : fileBasedSetWrite(p, m)
    \/ \E p \in Procs : fileBasedSetChmod(p)
    \/ \E p \in Procs, k \in FileKeys : fileBasedDeleteExists(p, k)
    \/ \E p \in Procs : fileBasedDeleteRead(p)
    \/ \E p \in Procs, m \in CreateModes : fileBasedDeleteWrite(p, m)

\* a process at its password prompts
PromptNext ==
    \/ askSecureInput
    \/ \E c \in Chunks : onData(c)
    \/ stdinEnd
    \/ killed

\* the commands, one process after the other
CommandNext ==
    \/ \E n \in NetworkNames, a \in NodeAnswers, kt \in CommandModes,
          h \in RandomHex : addNetwork(n, a, kt, h)
    \/ \E kt \in CommandModes, h \in RandomHex : listNetworks(kt, h)
    \/ \E n \in CommandNames, kt \in CommandModes, h \in RandomHex :
           commandSetActiveNetwork(n, kt, h)
    \/ \E n \in CommandNames, r \in BOOLEAN, kt \in CommandModes,
          h \in RandomHex : testNetwork(n, r, kt, h)
    \/ \E n \in CommandNames, kt \in CommandModes, h \in RandomHex :
           commandRemoveNetwork(n, kt, h)
    \/ /\ AuditRoom(MaxStoreAudit)
       /\ \/ \E p \in BOOLEAN, n \in AddressNames, kt \in CommandModes,
                h \in RandomHex :
                 generateAddress(p, n, "secret1", 0, 2, kt, h)
          \/ \E w \in ImportPhrases, p \in BOOLEAN, n \in AddressNames,
                kt \in CommandModes, h \in RandomHex :
                 importAddress(w, p, n, "secret1", 0, 2, kt, h)
    \/ \E i \in Identifiers, a \in CommandAddresses \cup {""}, p \in BOOLEAN,
          kt \in CommandModes, h \in RandomHex : removeAddress(i, a, p, kt, h)

Spec == Init /\ [][Next]_vars
SpecWallet == InitDisplay /\ [][WalletNext]_vars
SpecSession == InitDisplay /\ [][SessionNext]_vars
SpecStore == Init /\ [][StoreNext]_vars
SpecBackend == Init /\ [][BackendNext]_vars
SpecAddress == InitDisplay /\ [][AddressNext]_vars
SpecMnemonic == Init /\ [][MnemonicNext]_vars
SpecCommand == InitDisplay /\ [][CommandNext]_vars
SpecLifetime == InitDisplay /\ [][LifetimeNext]_vars
SpecAudit == InitDisplay /\ [][AuditNext]_vars
SpecPrompt == Init /\ [][PromptNext]_vars
SpecFile == InitNoDisplay /\ [][FileNext]_vars

-----------------------------------------------------------------------------
(* properties *)

\* the object stored under wallet:<address>, when there is one
HasWallet(address) == Has(keytarStore, walletKey(address))
WalletData(address) == keytarStore[walletKey(address)].json

\* C1: storeWallet(id, k) followed by getWallet(id) with the same master
\* password, the native service answering, returns exactly k.
C1_StoreThenRetrieve ==
    [][(/\ res.op = "storeWallet" /\ res.outcome = "ok"
        /\ res'.op = "getWallet" /\ res'.target = res.target
        /\ res'.pw = res.pw /\ res'.native = "ok")
       => (res'.outcome = "ok" /\ res'.value = [plain |-> res.arg])]_vars

\* C1, reached: a storeWallet and then a getWallet were logged, and the
\* getWallet returned the key that the stored object holds under the
\* password typed.
C1_Witness ==
    /\ res.op = "getWallet" /\ res.outcome = "ok" /\ HasWallet(res.target)
    /\ Len(readAuditLog) >= 2
    /\ readAuditLog[Len(readAuditLog) - 1].action = "WALLET_STORE"
    /\ readAuditLog[Len(readAuditLog) - 1].success
    /\ readAuditLog[Len(readAuditLog)].action = "WALLET_ACCESS"
    /\ \E k \in PrivateKeys :
          /\ res.value = [plain |-> k]
          /\ WalletData(res.target).encrypted =
                 AesCbcEncrypt(k, Scrypt(res.pw, WalletData(res.target).salt),
                               WalletData(res.target).iv)

\* C2: storeWallet(id, k) followed by getWallet(id) with another master
\* password throws "Incorrect master password or corrupted wallet data" and
\* leaves the stored object as it was.
C2_WrongPasswordRejected ==
    [][(/\ res.op = "storeWallet" /\ res.outcome = "ok"
        /\ res'.op = "getWallet" /\ res'.target = res.target
        /\ res'.pw # res.pw /\ res'.native = "ok")
       => (/\ res'.outcome = "throw" /\ res'.err = IncorrectMsg
           /\ keytarStore' = keytarStore)]_vars

\* C3: a storeWallet whose typed password does not give the master hash of
\* security.json under its salt writes nothing to the secret store.
C3_StoreOnlyAfterVerification ==
    [][(/\ res'.op = "storeWallet" /\ securityFile.exists
        /\ Scrypt(res'.pw, securityFile.masterSalt) # securityFile.masterHash)
       => keytarStore' = keytarStore]_vars

\* the methods that ask for the master password or use the cached one
AuthOps == {"storeWallet", "getWallet", "getWalletFresh", "getWalletFromSession"}

\* C4: with a session timeout of one minute, a getWallet right after a
\* successful authenticated call does not prompt, and a getWallet 61 seconds
\* or more after it prompts.  (A successful call has logged its entry, so the
\* last entry's timestamp is the time of that call.)
C4_SessionTimeoutBoundary ==
    [][(/\ session.timeout = 1 * 60 * 1000
        /\ res.op \in AuthOps /\ res.outcome = "ok"
        /\ res'.op = "getWallet")
       => LET elapsed == now - readAuditLog[Len(readAuditLog)].timestamp
          IN  /\ elapsed = 0 => ~res'.prompted
              /\ elapsed >= 61000 => res'.prompted]_vars

\* C5: in use-once mode (timeout 0) the session is never active and caches no
\* key, and every getWallet prompts.
C5_UseOnceNeverCaches ==
    session.timeout = 0 =>
        /\ ~session.isActive
        /\ session.masterKey = NoKey
        /\ res.op = "getWallet" => res.prompted

\* C6: a call that makes the session active or sets its cached key has asked
\* for the master password, and the key it caches is that password.
C6_SessionOnlyByVerification ==
    [][(\/ session'.isActive /\ ~session.isActive
        \/ session'.masterKey # session.masterKey /\ session'.masterKey # NoKey)
       => (res'.prompted /\ session'.masterKey = res'.pw)]_vars

\* C7: a setup whose passwords differ or whose password is shorter than six
\* characters throws, and leaves security.json and the session as they were.
C7_FailedSetupChangesNothing ==
    [][(res'.op = "setup" /\ (res'.pw # res'.arg \/ Len(res'.pw) < 6))
       => (/\ res'.outcome = "throw"
           /\ securityFile' = securityFile
           /\ session' = session)]_vars

\* whether text s contains text t
Contains(s, t) ==
    \E i \in 1..(Len(s) - Len(t) + 1) : SubSeq(s, i, i + Len(t) - 1) = t
\* the fields that hold a number (hex text is read as its number), a
\* boolean or an object; every other field holds text
NonTextFields ==
    {"exists", "sessionTimeout", "setupDate", "masterSalt", "masterHash",
     "encrypted", "salt", "iv", "timestamp", "success", "metadata",
     "setupTime"}
TextOf(o) == {o[f] : f \in (DOMAIN o) \ NonTextFields}
StoreText(m) ==
    (DOMAIN m) \cup
    UNION {IF "str" \in DOMAIN m[k] THEN {m[k].str} ELSE TextOf(m[k].json) :
           k \in DOMAIN m}
\* every text that is on disk or in the native secret service
PersistedText ==
    TextOf(securityFile)
    \cup UNION {TextOf(readAuditLog[i]) \cup TextOf(readAuditLog[i].metadata) :
                i \in 1..Len(readAuditLog)}
    \cup StoreText(keytarStore)
    \cup StoreText(networksFile.data)

\* C8: no text of security.json, of the audit log, of the fallback file or of
\* the native secret service contains a password that was typed.
C8_PasswordNeverPersisted ==
    \A pw \in Passwords : \A t \in PersistedText : ~Contains(t, pw)

\* C8, reached: setup has written security.json and a failed call has been
\* logged with its error message.
C8_Witness ==
    /\ securityFile.exists
    /\ Len(readAuditLog) >= 2
    /\ ~readAuditLog[Len(readAuditLog)].success
    /\ res.outcome = "throw" /\ res.pw \in Passwords

\* C9: a call in which the native service reported the missing message bus
\* returns normally, served by the file fallback.
C9_CapabilityFailureNeverSurfaces ==
    res.native = "dbus" => (res.outcome = "ok" /\ res.backend = "file")

\* the methods that go through safeKeytarSet / Get / Delete
SafeOps ==
    {"storeNetwork", "getNetwork", "removeNetwork", "setActiveNetwork",
     "getActiveNetwork", "setActiveAddress", "getActiveAddress"}

\* C10: after a call that fell back to the file, the next set/get/delete goes
\* to the file too, and getActiveNetwork after a successful
\* setActiveNetwork(v) returns v.
C10_OneBackendPerProcess ==
    [][/\ (res.native = "dbus" /\ res.backend = "file" /\ res'.op \in SafeOps)
          => res'.backend = "file"
       /\ (/\ res.op = "setActiveNetwork" /\ res.outcome = "ok"
           /\ res'.op = "getActiveNetwork")
          => res'.value = Str(res.target)]_vars

\* C11: every set, get and delete of a sequence returns (or throws) on the
\* file fallback what it returns (or throws) on the native service.
C11_FallbackEquivalence ==
    res.backend = "both" => res.value.file = res.value.native

\* the methods that set up the manager or store, retrieve or remove a secret
SensitiveOps ==
    {"setup", "storeWallet", "getWallet", "getWalletFresh",
     "getWalletFromSession", "removeWallet"}

\* C12: every call of a sensitive method, whether it returns or throws,
\* appends one entry to the audit log, for its target and with its outcome.
C12_EverySensitiveOperationAudited ==
    [][res'.op \in SensitiveOps
       => /\ Len(readAuditLog') = Len(readAuditLog) + 1
          /\ SubSeq(readAuditLog', 1, Len(readAuditLog)) = readAuditLog
          /\ readAuditLog'[Len(readAuditLog')].target = res'.target
          /\ readAuditLog'[Len(readAuditLog')].success = (res'.outcome = "ok")]_vars

\* C13: isValidAddress of the address convertToBase58 has just derived, for
\* any public point and any chain prefix, is true.
C13_DerivedAddressValidates ==
    [][(/\ res.op = "convertToBase58"
        /\ res'.op = "isValidAddress"
        /\ res'.arg = Str(res.value.base58))
       => res'.value = [bool |-> TRUE]]_vars

\* C14: isValidAddress returns false, and does not throw, for every input
\* that is not an address.
C14_MalformedAddressRejected ==
    (res.op = "isValidAddress" /\ res.arg \in MalformedAddresses)
        => (res.outcome = "ok" /\ res.value = [bool |-> FALSE])

\* C15: the bytes under the base58 text of a derived address are the 25
\* bytes version, digest, embedded checksum, followed by the first four
\* bytes of the double SHA-256 of those 25 bytes: 29 bytes, that begin with
\* the version byte 0x83.
C15_PayloadLayout ==
    res.op = "convertToBase58" =>
        LET inner == BufferFromHex(base58extracted(res.arg.publicKey, <<8, 3>>))
            text == res.value.base58
            payload == base58decode(
                           SubSeq(text, Len(OrPR(res.arg.chainPrefix)) + 1,
                                  Len(text))).bytes
        IN  /\ Len(payload) = 29
            /\ payload[1] = 131
            /\ payload = inner \o SubSeq(Sha256(Sha256(inner)), 1, 4)

\* C16: the address createNewAddress returns is the address convertToBase58
\* gives for the returned public point and the prefix, that point is the
\* one getPubKeyFromPrivate gives for the returned private key, and
\* rescuePrivateKey of the returned words under the same prefix gives the
\* same address.
C16_AddressFunctionOfPointAndPrefix ==
    [][/\ (res'.op = "createNewAddress" /\ res'.outcome = "ok")
          => /\ res'.value.pub =
                    convertToBase58(res'.value.publicKey,
                                    res'.arg.chainPrefix).base58
             /\ getPubKeyFromPrivate(res'.value.pri) =
                    [hex |-> res'.value.publicKey]
       /\ (/\ res.op = "createNewAddress" /\ res.outcome = "ok"
           /\ res'.op = "rescuePrivateKey"
           /\ res'.arg.words = res.value.words
           /\ res'.arg.chainPrefix = res.arg.chainPrefix)
          => /\ "base58" \in DOMAIN res'.value
             /\ res'.value.base58.base58 = res.value.pub]_vars

\* C16, reached: rescuePrivateKey has returned, for the words of a generated
\* key, the address that generation gives for that key.
C16_Witness ==
    /\ res.op = "rescuePrivateKey"
    /\ "base58" \in DOMAIN res.value
    /\ \E k \in Scalars :
          /\ ~entropyToMnemonic(getPrivate(k)).threw
          /\ res.arg.words = entropyToMnemonic(getPrivate(k)).words
          /\ res.value.base58.pub = getPublic(k)
          /\ res.value.base58.base58 \in DerivedAddresses

\* C17: getMnemonic of a 32-byte private key (64 hex digits, leading zero
\* bytes included) gives a phrase, and rescuePrivateKey of that phrase gives
\* the key back.
C17_MnemonicRoundTrip ==
    [][/\ (res'.op = "getMnemonic" /\ Len(res'.arg) = 64)
          => res'.value.error = 0
       /\ (/\ res.op = "getMnemonic" /\ Len(res.arg) = 64
           /\ res.value.error = 0
           /\ res'.op = "rescuePrivateKey"
           /\ res'.arg.words = res.value.mnemonic)
          => /\ "pri" \in DOMAIN res'.value
             /\ res'.value.pri = res.arg]_vars

\* C17, reached: rescuePrivateKey has returned a 32-byte key whose first
\* byte is zero, from the phrase of that key.
C17_Witness ==
    /\ res.op = "rescuePrivateKey"
    /\ "pri" \in DOMAIN res.value
    /\ res.value.pri = ToHex(Scalar(5, 1))
    /\ res.arg.words = entropyToMnemonic(ToHex(Scalar(5, 1))).words

\* C18: rescuePrivateKey returns its error, and no private key or address,
\* for a phrase that has not 24 words or whose checksum does not verify.
C18_BadPhraseRejected ==
    (/\ res.op = "rescuePrivateKey"
     /\ \/ Len(res.arg.words) # 24
        \/ mnemonicToEntropy(res.arg.words).threw)
        => res.value = RescueError

\* C19: getMnemonic returns a phrase, of 24 words, for a key of 32 bytes and
\* its error for a key of any other length.
C19_MnemonicOnlyFor32Bytes ==
    res.op = "getMnemonic" =>
        IF Len(res.arg) = 64
        THEN res.value.error = 0 /\ Len(res.value.mnemonic) = 24
        ELSE res.value = MnemonicError

\* C20: createNewAddress returns, for every scalar genKeyPair can give, the
\* key pair, the address and a phrase of 24 words.
C20_GenerateSucceeds ==
    res.op = "createNewAddress" =>
        /\ res.outcome = "ok"
        /\ Len(res.value.words) = 24
        /\ keyFromPrivate(res.value.pri) = StripLeadingZeros(res.arg.key)
        /\ res.value.publicKey = getPublic(res.arg.key)

\* C21: importing a phrase fails with a prefix mismatch whenever the prefix
\* resolved from the derived address (known prefixes first, then the leading
\* run of A-Z) differs from the prefix of the network, and goes on to save
\* the address only when the two are equal.
C21_PrefixMismatchRejected ==
    (res.op = "importAddress" /\ res.target # "") =>
        ((res.outcome # "prefix mismatch")
             <=> chainPrefixOf(res.target) = res.value.prefix)

\* a record of the network: namespace that is the metadata of an address
IsAddressMetadata(record) == "address" \in DOMAIN record

\* the records a store keeps under network:<name> that are address metadata
MetadataAsNetwork(m) ==
    {k \in DOMAIN m : StartsWith(k, "network:") /\ IsAddressMetadata(m[k].json)}

\* C22: network records and address metadata have disjoint key namespaces:
\* no address metadata is kept under network:<name>, network list returns
\* no address metadata, and network set, network test and network remove
\* answer "not found" to the key of an address's metadata.
C22_DisjointNamespaces ==
    /\ MetadataAsNetwork(keytarStore) = {}
    /\ networksFile.exists => MetadataAsNetwork(networksFile.data) = {}
    /\ res.op = "listNetworks" =>
           \A k \in DOMAIN res.value.nets : ~IsAddressMetadata(res.value.nets[k])
    /\ (res.op \in {"network set", "network test", "network remove"}
            /\ StartsWith(res.target, "address:")) =>
           res.outcome = "not found"

\* config:activeNetwork of a store is unset or names a record the store
\* keeps under network:<name>
ActiveNetworkStored(m) ==
    Has(m, activeNetworkKey) => Has(m, networkKey(m[activeNetworkKey].str))

\* C29: after any sequence of network add, set, remove and address generate,
\* import, remove, config:activeNetwork is unset or the name of a stored
\* network record.
C29_ActiveNetworkStored ==
    /\ ActiveNetworkStored(keytarStore)
    /\ networksFile.exists => ActiveNetworkStored(networksFile.data)

\* C23: isSessionValid() is true exactly when the session is active and
\* less than the timeout has passed since the last activity: it is false
\* when exactly the timeout has passed, and false whenever the timeout is 0.
C23_SessionValidity ==
    res.op = "isSessionValid" =>
        LET s == res.arg.session
            elapsed == res.arg.now - s.lastActivity
        IN  /\ res.value.bool <=> (s.isActive /\ elapsed < s.timeout)
            /\ (s.isActive /\ elapsed = s.timeout) => ~res.value.bool
            /\ s.timeout = 0 => ~res.value.bool

\* isSessionValid() answered for an active session exactly one timeout
\* after its last activity
C23_Witness ==
    /\ res.op = "isSessionValid"
    /\ res.arg.session.isActive
    /\ res.arg.session.timeout > 0
    /\ (res.arg.now - res.arg.session.lastActivity) = res.arg.session.timeout
    /\ ~res.value.bool

\* C30: a manager created after setup has the session timeout that setup
\* wrote to security.json.
C30_TimeoutOfLaterProcess ==
    (res.op = "new" /\ securityFile.exists) =>
        session.timeout = securityFile.sessionTimeout

\* the namespaces of the keys the manager gives to the fallback file
IsNamespaced(k) == StartsWith(k, "network:") \/ StartsWith(k, "config:")

\* C24: whenever the fallback file exists, between the calls of the set
\* that creates it and after a delete has rewritten it as well, only its
\* owner may read and write it, and it holds one object keyed by namespaced
\* keys.
C24_FallbackFileOwnerOnly ==
    networksFile.exists =>
        /\ networksFile.mode = "0600"
        /\ \A k \in DOMAIN networksFile.data : IsNamespaced(k)

\* C27: the fallback file holds exactly what the process that wrote it last
\* wrote, that is the object this process had read with its own key set or
\* deleted, whatever the other process read and wrote in between.
C27_LastWriterWins ==
    \A p \in Procs :
        (lastWriter = p /\ writers[p].wrote) =>
            networksFile.data =
                IF writers[p].op = "set"
                THEN Put(writers[p].data, writers[p].key, writers[p].value)
                ELSE Del(writers[p].data, writers[p].key)

\* two sets of different keys, both read before either wrote, both
\* returned: the file has the key of the last writer and not the other's
C27_Witness ==
    /\ \A p \in Procs : /\ writers[p].pc = "idle"
                         /\ writers[p].op = "set"
                         /\ writers[p].wrote
    /\ writers[1].key # writers[2].key
    /\ writers[1].data = writers[2].data
    /\ lastWriter = 2
    /\ Has(networksFile.data, writers[2].key)
    /\ ~Has(networksFile.data, writers[1].key)

\* C25: a call that rewrites the audit log leaves the entries the file held
\* before, in their order, followed by exactly one new entry, whatever the
\* file held before the call.
C25_AuditAppendOnly ==
    [][(auditFile' # auditFile /\ auditFile'.state = "json") =>
           /\ Len(auditFile'.entries) = Len(auditFile.entries) + 1
           /\ SubSeq(auditFile'.entries, 1, Len(auditFile.entries))
                  = auditFile.entries]_vars

\* C26: a process that has ended has left the terminal in normal mode,
\* whichever way the prompt that set raw mode ended: Enter, Ctrl+C, the end
\* of stdin, or the end of the process while the prompt was waiting.
C26_RawModeRestored ==
    tty.process = "exited" => ~tty.rawMode

\* C28: an address isValidAddress accepts decodes, once its prefix is taken
\* off, to the bytes of an address: as many as convertToBase58 encodes, the
\* first being the version byte 0x83.  A payload that is only a checksum is
\* not accepted.
C28_AcceptedHasLayout ==
    (res.op = "isValidAddress" /\ res.value.bool) =>
        LET address == res.arg.str
            decoded == base58decode(SubSeq(address,
                                           Len(chainPrefixOf(address)) + 1,
                                           Len(address)))
        IN  /\ ~decoded.threw
            /\ Len(decoded.bytes) = Len(SampleData)
            /\ decoded.bytes[1] = 131

====
